---- MODULE Spec2Model ----
(***************************************************************************)
(* IndexStream-v2: the positional inverted index (internal/service/        *)
(* indexer.go), the three-tier cache (internal/cache/cache.go), the crawl  *)
(* driver (internal/service/crawler.go) and the text extractor with its    *)
(* shutdown (ExtractText, processFile, ShutdownExtractor).                 *)
(*                                                                         *)
(* A time.Duration is a number of ticks, and every stored time.Time is     *)
(* kept relative to the present instant: time.Now() is 0, and the passing  *)
(* of one tick lowers every stored ExpiresAt and modTime by one.  An       *)
(* instant further back than any comparison of the code can tell apart is  *)
(* kept at the oldest instant that compares the same way.                  *)
(* CacheItem keeps Data and ExpiresAt; CreatedAt, AccessedAt and HitCount  *)
(* are written by the code and read by nothing, and are left out.          *)
(***************************************************************************)
EXTENDS Integers, Sequences, FiniteSets, TLC

VARIABLES
    cache,      \* the MultiLayerCache: l1Cache, l1Order, the files of l2Dir,
                \* l2CurrentSize, the pending access-time write-backs, l3Cache, stats
    idx,        \* the Index: index (postings), docLen, docFreq, docCount,
                \* avgDL, sumDocLen, docMetaCache
    DocURLMap,  \* docID -> URL, written by the crawler
    readers,    \* the goroutines inside getFromL1: where each is in
                \* moveToFront, and the slice it holds
    called,     \* observer: the docIDs an AddDocument call has returned for
    ingested,   \* observer: docID -> the token list of the AddDocument call
                \* that indexed it
    last,       \* observer: the operation that has just completed, its
                \* arguments and what it returned
    maxDepth,   \* CrawlRecursive: cfg.SearchDepth as read at the call
    visitedURLs, \* CrawlRecursive: the hash set of visited urls
    mu,         \* CrawlRecursive: the thread that holds the mutex, or ""
    wg,         \* CrawlRecursive: the counter of the WaitGroup
    sem,        \* CrawlRecursive: the entries in the semaphore channel
    threads,    \* the caller of CrawlRecursive ("main") and the goroutines
                \* it has started: where each is, its url and depth, the
                \* urls it still ranges over, the url it calls worker with
    broken,     \* the URLs whose fetch fails
    fetches,    \* observer: url -> the number of calls Crawl(url)
    IndexTargetChan, \* the channel of file paths: its buffer, and whether
                \* it has been closed
    extractorCtx, \* "" until extractorCancel() is called, then "Done"
    extractorWg, \* the counter of the extractor's WaitGroup
    extractor,  \* ExtractText: where it is, the filePath it has received,
                \* the entries in its semaphore channel
    tasks,      \* the goroutines ExtractText has started: how many there
                \* are with each filePath at each place
    shutdown,   \* ShutdownExtractor: where its caller is
    panicked,   \* the run-time panics raised
    dataDir,    \* cfg.DataURL: file path -> the body stored there
    emitted,    \* observer: file path -> the number of sends of it
    received,   \* observer: file path -> the number of receives of it
    writer,     \* the AddDocument call that holds idx.mu: its arguments,
                \* its next statement, pos and seen of its loop
    observed,   \* observer: the reader that has just read the index, and
                \* the fields as it found them
    stored,     \* observer: query -> the instant of the SetQueryResult call
                \* that stored its results last
    mutexes,    \* the sync.RWMutex of the index and of the cache: the
                \* goroutine that holds each for writing, and how often
                \* each goroutine holds it for reading
    calls       \* the goroutines that call the index and the cache: the
                \* call each is in, and the lock operations it has left

crawlVars == <<maxDepth, visitedURLs, mu, wg, sem, threads, broken, fetches>>

indexVars == <<cache, idx, DocURLMap, readers, called, ingested, last>>

extractVars == <<IndexTargetChan, extractorCtx, extractorWg, extractor, tasks,
                 shutdown, panicked, dataDir, emitted, received>>

lockVars == <<writer, observed>>

orderVars == <<mutexes, calls>>

vars == <<cache, idx, DocURLMap, readers, called, ingested, last,
          maxDepth, visitedURLs, mu, wg, sem, threads, broken, fetches,
          IndexTargetChan, extractorCtx, extractorWg, extractor, tasks,
          shutdown, panicked, dataDir, emitted, received, writer, observed,
          stored, mutexes, calls>>

(***************************************************************************)
(* Bounds of the model.  The cache configuration (CacheConfig) is scaled   *)
(* down: TTLs in ticks, sizes in abstract bytes.                           *)
(***************************************************************************)
L1MaxItems == 1
RaceL1MaxItems == 2
IndexL1MaxItems == 6
IndexL2MaxSize == 8
IndexL2TTL == 3
MaxK == 1
MaxLen == 2
L2MaxSize == 2
L1TTL == 2
L2TTL == 2
L3TTL == 1
MaxItemSize == 1
StatCap == 1
MaxAccount == 4
MaxPending == 1

\* the capacity of the semaphore channel of CrawlRecursive, 10 in the code
SemSize == 2

\* the largest cfg.SearchDepth (SEARCH_DEPTH) of a crawl
SearchDepth == 4

\* the buffer of the index channel (the code: 100)
ChanSize == 1

\* the extractor's semaphore (the code: 5)
ExtractSemSize == 2

\* the receives from the closed channel in a run
MaxEmpty == 1

\* the bytes of a string
MaxChars == 3

\* the requests L1 has had when a run of OptimizeCache calls ends
MaxRequests == 102

(***************************************************************************)
(* The inputs the operations are called with.                              *)
(***************************************************************************)
Docs == {"d1", "d2"}
Terms == {"a", "b"}
Queries == {"a"}
CacheKeys == {"x"}
LRUKeys == {"x", "y", "z"}
RaceKeys == {"a", "b", "c", "d"}
CacheQueries == {"q"}

\* the *.cache file names in the order filepath.Glob lists them
HashOrder ==
    <<"sha:a", "sha:b", "sha:c", "sha:d", "sha:doc:d1", "sha:doc:d2",
      "sha:query:a", "sha:query:a b", "sha:query:b", "sha:query:q",
      "sha:term:a", "sha:term:b", "sha:x", "sha:y", "sha:z">>

(***************************************************************************)
(* Maps (Go map[K]V) as functions with a finite domain.                    *)
(***************************************************************************)
EmptyMap == << >>
Put(f, k, v) == [x \in (DOMAIN f) \cup {k} |-> IF x = k THEN v ELSE f[x]]
Del(f, k) == [x \in (DOMAIN f) \ {k} |-> f[x]]

(***************************************************************************)
(* Payloads (interface{}): a dynamic type and a value.  encoding/json      *)
(* does not keep the Go type: what json.Unmarshal gives back into an       *)
(* interface{} is a generic value (map[string]interface{}, float64, ...).  *)
(* A map payload is a reference: json.Marshal snapshots what it points to  *)
(* in `heap` at the time of the call.                                      *)
(***************************************************************************)
Nil == [typ |-> "nil", val |-> 0]
Raw(n) == [typ |-> "raw", val |-> n]
RefTypes == {"map[string][]int"}
JSONTypes == {"json:raw", "json:map[string][]int", "json:docData",
              "json:CachedSearchResults", "json:nil"}

jsonRoundTrip(data, heap) ==
    IF data.typ \in JSONTypes THEN data
    ELSE IF data.typ \in RefTypes
         THEN [typ |-> "json:" \o data.typ, val |-> heap[data.val]]
         ELSE [typ |-> "json:" \o data.typ, val |-> data.val]

\* len(jsonData): abstract bytes of the marshalled CacheItem
jsonSize(data) ==
    IF data.typ \in {"raw", "json:raw"} THEN data.val ELSE 1

(***************************************************************************)
(* CacheItem                                                               *)
(***************************************************************************)
now == 0

IsExpired(item, t) == t > item.ExpiresAt

StatNames == {"l1_hits", "l1_misses", "l2_hits", "l2_misses",
              "l3_hits", "l3_misses", "evictions"}

\* counters are int64; a specification counts exactly below its statCap and
\* keeps statCap for every larger value (statCap = 0: it does not count)
incrementStat(c, stat) ==
    [c EXCEPT !.stats[stat] = IF @ < c.statCap THEN @ + 1 ELSE @]

generateKey(key) == "sha:" \o key

NewMultiLayerCache(config, files) ==
    [ statCap |-> 0,
      l1Cache |-> EmptyMap,
      l1Order |-> << >>,
      l1MaxSize |-> config.L1MaxItems,
      l1TTL |-> config.L1TTL,
      l2Files |-> files,
      l2TTL |-> config.L2TTL,
      l2MaxSize |-> config.L2MaxSizeMB,
      l2CurrentSize |-> 0,
      l2Pending |-> {},
      l3Cache |-> EmptyMap,
      l3TTL |-> config.L3TTL,
      stats |-> [s \in StatNames |-> 0],
      lastInsert |-> 0 ]   \* observer: size of the file setToL2 wrote last

(***************************************************************************)
(* L1: in-memory LRU                                                       *)
(***************************************************************************)
RECURSIVE indexOf(_, _, _)
indexOf(order, key, i) ==
    IF i > Len(order) THEN 0
    ELSE IF order[i] = key THEN i ELSE indexOf(order, key, i + 1)

removeAt(order, i) ==
    SubSeq(order, 1, i - 1) \o SubSeq(order, i + 1, Len(order))

moveToFront(order, key) ==
    LET i == indexOf(order, key, 1)
    IN  IF i = 0 THEN order ELSE <<key>> \o removeAt(order, i)

removeFromOrder(order, key) ==
    LET i == indexOf(order, key, 1)
    IN  IF i = 0 THEN order ELSE removeAt(order, i)

\* getFromL1 without the item.IsExpired() test
getFromL1NoExpiry(c, key, t) ==
    IF key \notin DOMAIN c.l1Cache
    THEN [c |-> c, data |-> Nil, found |-> FALSE, expires |-> 0]
    ELSE [c |-> [c EXCEPT !.l1Order = moveToFront(@, key)],
          data |-> c.l1Cache[key].Data, found |-> TRUE,
          expires |-> c.l1Cache[key].ExpiresAt]

getFromL1(c, key, t) ==
    IF key \notin DOMAIN c.l1Cache \/ IsExpired(c.l1Cache[key], t)
    THEN [c |-> c, data |-> Nil, found |-> FALSE, expires |-> 0]
    ELSE [c |-> [c EXCEPT !.l1Order = moveToFront(@, key)],
          data |-> c.l1Cache[key].Data, found |-> TRUE,
          expires |-> c.l1Cache[key].ExpiresAt]

\* evictFromL1 that removes the head of l1Order, the most recent key
evictFromL1Newest(c) ==
    IF Len(c.l1Order) = 0 THEN c
    ELSE LET newestKey == c.l1Order[1]
         IN  incrementStat(
                 [c EXCEPT !.l1Cache = Del(@, newestKey),
                           !.l1Order = SubSeq(@, 2, Len(@))],
                 "evictions")

evictFromL1(c) ==
    IF Len(c.l1Order) = 0 THEN c
    ELSE LET oldestKey == c.l1Order[Len(c.l1Order)]
         IN  incrementStat(
                 [c EXCEPT !.l1Cache = Del(@, oldestKey),
                           !.l1Order = SubSeq(@, 1, Len(@) - 1)],
                 "evictions")

setToL1(c, key, data, t) ==
    LET order1 == IF key \in DOMAIN c.l1Cache
                  THEN removeFromOrder(c.l1Order, key) ELSE c.l1Order
        item == [Data |-> data, ExpiresAt |-> t + c.l1TTL]
        c1 == [c EXCEPT !.l1Cache = Put(@, key, item),
                        !.l1Order = <<key>> \o order1]
    IN  IF Cardinality(DOMAIN c1.l1Cache) > c1.l1MaxSize
        THEN evictFromL1(c1) ELSE c1

(***************************************************************************)
(* L2: one file <l2Dir>/<hashKey>.cache per entry, holding the marshalled  *)
(* CacheItem; modTime and size are what os.Stat reports.                   *)
(***************************************************************************)
RECURSIVE sumSizes(_, _)
sumSizes(files, keys) ==
    IF keys = {} THEN 0
    ELSE LET k == CHOOSE x \in keys : TRUE
         IN  files[k].size + sumSizes(files, keys \ {k})

calculateL2Size(c) ==
    [c EXCEPT !.l2CurrentSize = sumSizes(c.l2Files, DOMAIN c.l2Files)]

\* filepath.Glob returns the names sorted; HashOrder is that order
globFiles(files) ==
    LET names == SelectSeq(HashOrder, LAMBDA k : k \in DOMAIN files)
    IN  [i \in 1..Len(names) |->
            [path |-> names[i], modTime |-> files[names[i]].modTime,
             size |-> files[names[i]].size]]

swap(list, i, j) ==
    [list EXCEPT ![i] = list[j], ![j] = list[i]]

RECURSIVE sortInner(_, _, _)
sortInner(list, i, j) ==
    IF j > Len(list) THEN list
    ELSE sortInner(IF list[i].modTime > list[j].modTime
                   THEN swap(list, i, j) ELSE list, i, j + 1)

RECURSIVE sortByModTime(_, _)
sortByModTime(list, i) ==
    IF i >= Len(list) THEN list
    ELSE sortByModTime(sortInner(list, i, i + 1), i + 1)

RECURSIVE evictOldest(_, _, _, _)
evictOldest(c, fileList, i, spaceNeeded) ==
    IF i > Len(fileList) \/ spaceNeeded <= 0 THEN c
    ELSE evictOldest(
             incrementStat(
                 [c EXCEPT !.l2Files = Del(@, fileList[i].path),
                           !.l2CurrentSize = @ - fileList[i].size],
                 "evictions"),
             fileList, i + 1, spaceNeeded - fileList[i].size)

checkL2Capacity(c, newItemSize) ==
    IF c.l2CurrentSize + newItemSize <= c.l2MaxSize THEN c
    ELSE evictOldest(c, sortByModTime(globFiles(c.l2Files), 1), 1,
                     (c.l2CurrentSize + newItemSize) - c.l2MaxSize)

getFromL2(c, key, t) ==
    IF key \notin DOMAIN c.l2Files
    THEN [c |-> c, data |-> Nil, found |-> FALSE, expires |-> 0]
    ELSE LET item == c.l2Files[key]
         IN  IF IsExpired(item, t)
             THEN [c |-> [c EXCEPT !.l2Files = Del(@, key)],
                   data |-> Nil, found |-> FALSE, expires |-> 0]
             ELSE [c |-> [c EXCEPT !.l2Pending = @ \cup
                              {[key |-> key, Data |-> item.Data,
                                ExpiresAt |-> item.ExpiresAt,
                                size |-> item.size]}],
                   data |-> item.Data, found |-> TRUE,
                   expires |-> item.ExpiresAt]

setToL2(c, key, data, heap, t) ==
    LET jsonData == jsonRoundTrip(data, heap)
        n == jsonSize(jsonData)
        c1 == checkL2Capacity(c, n)
    IN  [c1 EXCEPT !.l2Files = Put(@, key,
                        [Data |-> jsonData, ExpiresAt |-> t + c.l2TTL,
                         modTime |-> t, size |-> n]),
                   !.l2CurrentSize = @ + n,
                   !.lastInsert = n]

\* the goroutine started by an L2 hit: os.WriteFile(filePath, newData, 0644)
writeBack(c, p, t) ==
    [c EXCEPT !.l2Files = Put(@, p.key,
                  [Data |-> p.Data, ExpiresAt |-> p.ExpiresAt,
                   modTime |-> t, size |-> p.size]),
              !.l2Pending = @ \ {p}]

(***************************************************************************)
(* L3: query results                                                       *)
(***************************************************************************)
getFromL3(c, key, t) ==
    IF key \notin DOMAIN c.l3Cache \/ IsExpired(c.l3Cache[key], t)
    THEN [c |-> c, data |-> Nil, found |-> FALSE, expires |-> 0]
    ELSE [c |-> c, data |-> c.l3Cache[key].Data, found |-> TRUE,
          expires |-> c.l3Cache[key].ExpiresAt]

setToL3(c, key, data, t) ==
    [c EXCEPT !.l3Cache = Put(@, key, [Data |-> data, ExpiresAt |-> t + c.l3TTL])]

(***************************************************************************)
(* The public operations.  Beside (data, found) a lookup result carries,   *)
(* for the observers, the tier that served it and the ExpiresAt of the     *)
(* CacheItem the payload was read from.                                    *)
(***************************************************************************)
\* Get that does not write an L2 hit into L1
GetNoPromotion(c, key, heap, t) ==
    LET hashKey == generateKey(key)
        r1 == getFromL1(c, hashKey, t)
    IN  IF r1.found
        THEN [c |-> incrementStat(r1.c, "l1_hits"), data |-> r1.data,
              found |-> TRUE, tier |-> "L1", expires |-> r1.expires]
        ELSE
        LET c1 == incrementStat(r1.c, "l1_misses")
            r2 == getFromL2(c1, hashKey, t)
        IN  IF r2.found
            THEN [c |-> incrementStat(r2.c, "l2_hits"),
                  data |-> r2.data, found |-> TRUE, tier |-> "L2",
                  expires |-> r2.expires]
            ELSE
            LET c2 == incrementStat(r2.c, "l2_misses")
                r3 == getFromL3(c2, hashKey, t)
            IN  IF r3.found
                THEN [c |-> setToL2(
                                setToL1(incrementStat(r3.c, "l3_hits"),
                                        hashKey, r3.data, t),
                                hashKey, r3.data, heap, t),
                      data |-> r3.data, found |-> TRUE, tier |-> "L3",
                      expires |-> r3.expires]
                ELSE [c |-> incrementStat(r3.c, "l3_misses"),
                      data |-> Nil, found |-> FALSE, tier |-> "none",
                      expires |-> 0]

Get(c, key, heap, t) ==
    LET hashKey == generateKey(key)
        r1 == getFromL1(c, hashKey, t)
    IN  IF r1.found
        THEN [c |-> incrementStat(r1.c, "l1_hits"), data |-> r1.data,
              found |-> TRUE, tier |-> "L1", expires |-> r1.expires]
        ELSE
        LET c1 == incrementStat(r1.c, "l1_misses")
            r2 == getFromL2(c1, hashKey, t)
        IN  IF r2.found
            THEN [c |-> setToL1(incrementStat(r2.c, "l2_hits"),
                                hashKey, r2.data, t),
                  data |-> r2.data, found |-> TRUE, tier |-> "L2",
                  expires |-> r2.expires]
            ELSE
            LET c2 == incrementStat(r2.c, "l2_misses")
                r3 == getFromL3(c2, hashKey, t)
            IN  IF r3.found
                THEN [c |-> setToL2(
                                setToL1(incrementStat(r3.c, "l3_hits"),
                                        hashKey, r3.data, t),
                                hashKey, r3.data, heap, t),
                      data |-> r3.data, found |-> TRUE, tier |-> "L3",
                      expires |-> r3.expires]
                ELSE [c |-> incrementStat(r3.c, "l3_misses"),
                      data |-> Nil, found |-> FALSE, tier |-> "none",
                      expires |-> 0]

Set(c, key, data, heap, t) ==
    LET hashKey == generateKey(key)
    IN  setToL2(setToL1(c, hashKey, data, t), hashKey, data, heap, t)

\* SetQueryResult that stores the results in L3 alone
SetQueryResultL3Only(c, query, results, t) ==
    LET hashKey == generateKey("query:" \o query)
    IN  setToL3(c, hashKey, results, t)

SetQueryResult(c, query, results, t) ==
    LET hashKey == generateKey("query:" \o query)
    IN  setToL1(setToL3(c, hashKey, results, t), hashKey, results, t)

GetQueryResult(c, query, heap, t) ==
    Get(c, "query:" \o query, heap, t)

Clear(c) ==
    [c EXCEPT !.l1Cache = EmptyMap, !.l1Order = << >>,
              !.l2Files = EmptyMap, !.l2CurrentSize = 0,
              !.l3Cache = EmptyMap]

RECURSIVE cleanupL1(_, _, _)
cleanupL1(c, keys, t) ==
    IF keys = {} THEN c
    ELSE LET key == CHOOSE x \in keys : TRUE
             c1 == IF IsExpired(c.l1Cache[key], t)
                   THEN [c EXCEPT !.l1Cache = Del(@, key),
                                  !.l1Order = removeFromOrder(@, key)]
                   ELSE c
         IN  cleanupL1(c1, keys \ {key}, t)

RECURSIVE cleanupL2(_, _, _)
cleanupL2(c, keys, t) ==
    IF keys = {} THEN c
    ELSE LET key == CHOOSE x \in keys : TRUE
             info == c.l2Files[key]
             c1 == IF t - info.modTime > c.l2TTL
                   THEN [c EXCEPT !.l2Files = Del(@, key),
                                  !.l2CurrentSize =
                                      IF info.size > 0 THEN @ - info.size ELSE @]
                   ELSE c
         IN  cleanupL2(c1, keys \ {key}, t)

cleanupL3(c, t) ==
    [c EXCEPT !.l3Cache =
        [k \in {x \in DOMAIN c.l3Cache : ~IsExpired(c.l3Cache[x], t)}
            |-> c.l3Cache[k]]]

cleanup(c, t) ==
    cleanupL3(cleanupL2(cleanupL1(c, DOMAIN c.l1Cache, t),
                        DOMAIN c.l2Files, t), t)

(***************************************************************************)
(* The passing of one tick.  An expired item stays expired, and a file     *)
(* older than L2TTL stays older than L2TTL.                                *)
(***************************************************************************)
Max(a, b) == IF a >= b THEN a ELSE b

elapseItem(item) == [item EXCEPT !.ExpiresAt = Max(@ - 1, now - 1)]

elapse(c) ==
    [c EXCEPT
        !.l1Cache = [k \in DOMAIN @ |-> elapseItem(@[k])],
        !.l2Files = [k \in DOMAIN @ |->
                        [elapseItem(@[k]) EXCEPT
                            !.modTime = Max(@ - 1, now - c.l2TTL - 1)]],
        !.l2Pending = {elapseItem(p) : p \in @},
        !.l3Cache = [k \in DOMAIN @ |-> elapseItem(@[k])]]

(***************************************************************************)
(* The Index                                                               *)
(***************************************************************************)
\* Tokenize on the query strings of the model: lower case, letters, digits
\* and spaces kept, split at spaces, each piece stemmed
Tokenize(doc) ==
    CASE doc = "" -> << >>
      [] doc = "a" -> <<"a">>
      [] doc = "b" -> <<"b">>
      [] doc = "a b" -> <<"a", "b">>
      [] doc = "a a" -> <<"a", "a">>

Range(seq) == {seq[i] : i \in 1..Len(seq)}

Perms(S) ==
    {p \in [1..Cardinality(S) -> S] : \A i, j \in 1..Cardinality(S) :
                                          i # j => p[i] # p[j]}

\* the distinct tokens, in the order of a range over a Go map: any order
tokenDeduper(tokens) == Perms(Range(tokens))

Lookup(f, k, default) == IF k \in DOMAIN f THEN f[k] ELSE default

\* strings.Split(url, "/") on the URLs of the model
urlParts(url) == <<url>>

extractTitleFromURL(url) ==
    IF url = "" THEN "Untitled Document"
    ELSE LET parts == urlParts(url)
         IN  IF Len(parts) > 2
             THEN IF Len(parts) > 3
                  THEN parts[3] \o " - " \o parts[Len(parts)]
                  ELSE parts[3]
             ELSE url

NewInvertedIndex ==
    [ index |-> EmptyMap,
      docLen |-> EmptyMap,
      docFreq |-> EmptyMap,
      docCount |-> 0,
      avgDL |-> [num |-> 0, den |-> 1],
      sumDocLen |-> 0,
      docMetaCache |-> EmptyMap ]

\* the loop without the `seen` map: docFreq counts every occurrence
RECURSIVE addTokensNoSeen(_, _, _, _, _)
addTokensNoSeen(ix, docID, tokens, pos, seen) ==
    IF pos > Len(tokens) THEN ix
    ELSE LET token == tokens[pos]
             postings == Lookup(ix.index, token, EmptyMap)
             list == Lookup(postings, docID, << >>)
             ix1 == [ix EXCEPT
                        !.index = Put(@, token,
                                      Put(postings, docID, Append(list, pos - 1))),
                        !.docFreq = Put(@, token, Lookup(@, token, 0) + 1)]
         IN  addTokensNoSeen(ix1, docID, tokens, pos + 1, seen)

\* the loop recording only the first position of a token in the document
RECURSIVE addTokensFirstOnly(_, _, _, _, _)
addTokensFirstOnly(ix, docID, tokens, pos, seen) ==
    IF pos > Len(tokens) THEN ix
    ELSE LET token == tokens[pos]
             postings == Lookup(ix.index, token, EmptyMap)
             ix1 == IF token \in seen THEN ix
                    ELSE [ix EXCEPT
                            !.index = Put(@, token,
                                          Put(postings, docID, <<pos - 1>>)),
                            !.docFreq = Put(@, token, Lookup(@, token, 0) + 1)]
         IN  addTokensFirstOnly(ix1, docID, tokens, pos + 1, seen \cup {token})

\* the loop putting each new position in front of the list
RECURSIVE addTokensPrepend(_, _, _, _, _)
addTokensPrepend(ix, docID, tokens, pos, seen) ==
    IF pos > Len(tokens) THEN ix
    ELSE LET token == tokens[pos]
             postings == Lookup(ix.index, token, EmptyMap)
             list == Lookup(postings, docID, << >>)
             ix1 == [ix EXCEPT
                        !.index = Put(@, token,
                                      Put(postings, docID, <<pos - 1>> \o list)),
                        !.docFreq = IF token \in seen THEN @
                                    ELSE Put(@, token, Lookup(@, token, 0) + 1)]
         IN  addTokensPrepend(ix1, docID, tokens, pos + 1, seen \cup {token})

\* one pass of the loop of AddDocument, for tokens[pos]; positions count
\* from 0
addToken(ix, docID, tokens, pos, seen) ==
    LET token == tokens[pos]
        postings == Lookup(ix.index, token, EmptyMap)
        list == Lookup(postings, docID, << >>)
    IN  [ix EXCEPT
            !.index = Put(@, token,
                          Put(postings, docID, Append(list, pos - 1))),
            !.docFreq = IF token \in seen THEN @
                        ELSE Put(@, token, Lookup(@, token, 0) + 1)]

\* the passes for tokens[lo..hi] in order, seen being the tokens before lo;
\* the range is halved so that a long document is evaluated at small depth
RECURSIVE addTokenRange(_, _, _, _, _, _)
addTokenRange(ix, docID, tokens, lo, hi, seen) ==
    IF lo > hi THEN ix
    ELSE IF lo = hi THEN addToken(ix, docID, tokens, lo, seen)
    ELSE LET mid == (lo + hi) \div 2
             left == addTokenRange(ix, docID, tokens, lo, mid, seen)
         IN  \* the loop leaves docCount alone; the test has TLC evaluate
             \* the first half before it enters the second
             IF left.docCount # ix.docCount THEN left
             ELSE addTokenRange(left, docID, tokens, mid + 1, hi,
                                seen \cup {tokens[i] : i \in lo..mid})

\* the loop of AddDocument over tokens[pos..]
addTokens(ix, docID, tokens, pos, seen) ==
    addTokenRange(ix, docID, tokens, pos, Len(tokens), seen)

\* avgDL taken before docCount counts the new document
recomputeAvgDLStale(ix) ==
    [ix EXCEPT !.avgDL = [num |-> ix.sumDocLen,
                          den |-> IF ix.docCount > 1 THEN ix.docCount - 1 ELSE 1]]

\* idx.avgDL = float64(idx.sumDocLen) / float64(idx.docCount), as a fraction
recomputeAvgDL(ix) ==
    [ix EXCEPT !.avgDL = [num |-> ix.sumDocLen, den |-> ix.docCount]]

\* DocumentMetadata without IndexedAt and LastAccess, which nothing reads;
\* a SearchResult is kept without its Metadata pointer
NewDocumentMetadata(url, length) ==
    [URL |-> url, Title |-> extractTitleFromURL(url), Length |-> length]

\* yields the index and the cache after the call, and whether the call
\* got as far as indexing the tokens
AddDocument(ix, c, urls, docID, tokens, t) ==
    LET cacheKey == "doc:" \o docID
        r == Get(c, cacheKey, ix.index, t)
    IN  IF r.found
        THEN [idx |-> ix, cache |-> r.c, indexed |-> FALSE]
        ELSE IF docID \in DOMAIN ix.docLen
        THEN [idx |-> ix, cache |-> r.c, indexed |-> FALSE]
        ELSE
        LET ix1 == [ix EXCEPT !.docCount = @ + 1,
                              !.docLen = Put(@, docID, Len(tokens))]
            ix2 == addTokens(ix1, docID, tokens, 1, {})
            ix3 == [ix2 EXCEPT !.sumDocLen = @ + Len(tokens)]
            ix4 == recomputeAvgDL(ix3)
            metadata == NewDocumentMetadata(Lookup(urls, docID, ""), Len(tokens))
            ix5 == [ix4 EXCEPT !.docMetaCache = Put(@, docID, metadata)]
            docData == [typ |-> "docData",
                        val |-> [tokens |-> tokens, metadata |-> metadata]]
        IN  [idx |-> ix5, cache |-> Set(r.c, cacheKey, docData, ix5.index, t),
             indexed |-> TRUE]

getDocumentMetadata(ix, urls, docID) ==
    IF docID \in DOMAIN ix.docMetaCache THEN ix.docMetaCache[docID]
    ELSE NewDocumentMetadata(Lookup(urls, docID, ""), Lookup(ix.docLen, docID, 0))

\* math.Log(p/q) in units of 1e-4, for the quotients
\* (N - df + 0.5)/(df + 0.5) = (2N - 2df + 1)/(2df + 1) of up to three documents
LogE4(p, q) ==
    CASE p = q -> 0
      [] p = 1 /\ q = 3 -> -10986
      [] p = 1 /\ q = 5 -> -16094
      [] p = 1 /\ q = 7 -> -19459
      [] p = 3 /\ q = 5 -> -5108
      [] p = 5 /\ q = 3 -> 5108
      [] p = 5 /\ q = 1 -> 16094
      [] p = 3 /\ q = 1 -> 10986
      [] p = 7 /\ q = 1 -> 19459

\* scoreTerm with the idf ln((df + 0.5)/(N - df + 0.5)), the fraction turned
\* upside down
scoreTermInverseIdf(ix, term, docID) ==
    LET N == ix.docCount
        df == Lookup(ix.docFreq, term, 0)
        idf == LogE4(2 * df + 1, 2 * N - 2 * df + 1)
        tf == Len(Lookup(Lookup(ix.index, term, EmptyMap), docID, << >>))
        dl == Lookup(ix.docLen, docID, 0)
        S == ix.avgDL.num
        D == ix.avgDL.den
    IN  (idf * 20 * tf * S) \div (8 * tf * S + 3 * S + 9 * dl * D)

\* idf * (tf*(k1+1)) / (tf + k1*(1 - b + b*(dl/avgdl))) with k1 = 1.5 and
\* b = 0.75, which is idf * 20*tf*avgdl / (8*tf*avgdl + 3*avgdl + 9*dl);
\* in units of 1e-4, rounded down
scoreTerm(ix, term, docID) ==
    LET N == ix.docCount
        df == Lookup(ix.docFreq, term, 0)
        idf == LogE4(2 * N - 2 * df + 1, 2 * df + 1)
        tf == Len(Lookup(Lookup(ix.index, term, EmptyMap), docID, << >>))
        dl == Lookup(ix.docLen, docID, 0)
        S == ix.avgDL.num
        D == ix.avgDL.den
    IN  (idf * 20 * tf * S) \div (8 * tf * S + 3 * S + 9 * dl * D)

RECURSIVE sumScores(_, _, _)
sumScores(ix, terms, docID) ==
    IF terms = {} THEN 0
    ELSE LET term == CHOOSE x \in terms : TRUE
         IN  scoreTerm(ix, term, docID) + sumScores(ix, terms \ {term}, docID)

\* the first loop of performSearch: the candidates, and the term cache
RECURSIVE termLoop(_, _, _, _, _)
termLoop(ix, c, terms, i, t) ==
    IF i > Len(terms) THEN [c |-> c, candidates |-> {}]
    ELSE LET term == terms[i]
             cacheKey == "term:" \o term
             r == Get(c, cacheKey, ix.index, t)
             found == r.found /\ r.data.typ = "map[string][]int"
             inIndex == term \in DOMAIN ix.index
             postings == IF found THEN ix.index[r.data.val]
                         ELSE Lookup(ix.index, term, EmptyMap)
             c1 == IF found \/ ~inIndex THEN r.c
                   ELSE Set(r.c, cacheKey,
                            [typ |-> "map[string][]int", val |-> term],
                            ix.index, t)
             rest == termLoop(ix, c1, terms, i + 1, t)
         IN  [c |-> rest.c,
              candidates |-> (IF found \/ inIndex THEN DOMAIN postings ELSE {})
                                 \cup rest.candidates]

\* performSearch that sorts by score, ascending
performSearchAscending(ix, c, urls, query, topK, t) ==
    LET scoring(terms) == {term \in Range(terms) : Lookup(ix.docFreq, term, 0) # 0}
        scored(terms, candidates) ==
            {d \in candidates : \E term \in scoring(terms) :
                d \in DOMAIN Lookup(ix.index, term, EmptyMap)}
        result(terms, d) ==
            [DocID |-> d, URL |-> Lookup(urls, d, ""),
             Title |-> getDocumentMetadata(ix, urls, d).Title,
             Score |-> sumScores(ix, scoring(terms), d)]
        sorted(terms, candidates) ==
            {[i \in DOMAIN p |-> result(terms, p[i])] :
                p \in {q \in Perms(scored(terms, candidates)) :
                          \A i, j \in DOMAIN q :
                              i < j => result(terms, q[i]).Score
                                          <= result(terms, q[j]).Score}}
        trim(results) == IF Len(results) > topK
                         THEN SubSeq(results, 1, topK) ELSE results
    IN  UNION {LET l == termLoop(ix, c, terms, 1, t)
               IN  {[c |-> l.c, results |-> trim(res)] :
                        res \in sorted(terms, l.candidates)} :
               terms \in tokenDeduper(Tokenize(query))}

\* the set of what one call can return: the terms come in any order, the
\* scores are ranged over in any order and sort.Slice is not stable
performSearch(ix, c, urls, query, topK, t) ==
    LET scoring(terms) == {term \in Range(terms) : Lookup(ix.docFreq, term, 0) # 0}
        scored(terms, candidates) ==
            {d \in candidates : \E term \in scoring(terms) :
                d \in DOMAIN Lookup(ix.index, term, EmptyMap)}
        result(terms, d) ==
            [DocID |-> d, URL |-> Lookup(urls, d, ""),
             Title |-> getDocumentMetadata(ix, urls, d).Title,
             Score |-> sumScores(ix, scoring(terms), d)]
        sorted(terms, candidates) ==
            {[i \in DOMAIN p |-> result(terms, p[i])] :
                p \in {q \in Perms(scored(terms, candidates)) :
                          \A i, j \in DOMAIN q :
                              i < j => result(terms, q[i]).Score
                                          >= result(terms, q[j]).Score}}
        trim(results) == IF Len(results) > topK
                         THEN SubSeq(results, 1, topK) ELSE results
    IN  UNION {LET l == termLoop(ix, c, terms, 1, t)
               IN  {[c |-> l.c, results |-> trim(res)] :
                        res \in sorted(terms, l.candidates)} :
               terms \in tokenDeduper(Tokenize(query))}

NewCachedSearchResults(results, query, totalDocs) ==
    [typ |-> "CachedSearchResults",
     val |-> [Results |-> results, Query |-> query, TotalDocs |-> totalDocs]]

\* the set of what one call can return, with the cache after it
Search(ix, c, urls, query, topK, t) ==
    LET r == GetQueryResult(c, query, ix.index, t)
    IN  IF r.found /\ r.data.typ = "CachedSearchResults"
        THEN {[cache |-> r.c, results |-> r.data.val.Results, fromCache |-> TRUE]}
        ELSE {[cache |-> SetQueryResult(o.c, query,
                            NewCachedSearchResults(o.results, query, ix.docCount),
                            t),
               results |-> o.results, fromCache |-> FALSE] :
              o \in performSearch(ix, r.c, urls, query, topK, t)}

ClearCache(c) == Clear(c)

RECURSIVE setTerms(_, _, _, _, _)
setTerms(ix, c, list, i, t) ==
    IF i > Len(list) THEN c
    ELSE setTerms(ix,
                  Set(c, "term:" \o list[i],
                      [typ |-> "map[string][]int", val |-> list[i]], ix.index, t),
                  list, i + 1, t)

PrewarmLimit == 500

\* the set of caches one call can leave: termFreqList is filled by a range
\* over a map and sorted by a sort that is not stable
PrewarmCache(ix, c, t) ==
    LET freq(term) == Cardinality(DOMAIN ix.index[term])
        lists == {p \in Perms(DOMAIN ix.index) :
                     \A i, j \in DOMAIN p : i < j => freq(p[i]) >= freq(p[j])}
        limit(list) == IF Len(list) < PrewarmLimit THEN Len(list) ELSE PrewarmLimit
    IN  {setTerms(ix, c, SubSeq(list, 1, limit(list)), 1, t) : list \in lists}

OptimizeThreshold == 100

\* the set of caches one call can leave.  Where the specification does not
\* count (statCap = 0) or a counter has reached statCap, L1Hits and L1Misses
\* can be any numbers, and the call may take either branch.
OptimizeCache(ix, c, t) ==
    LET hits == c.stats["l1_hits"]
        misses == c.stats["l1_misses"]
        exact == hits < c.statCap /\ misses < c.statCap
        total == hits + misses
        clears == total > OptimizeThreshold /\ 10 * hits < 3 * total
        cleared == PrewarmCache(ix, Clear(c), t)
    IN  IF exact THEN (IF clears THEN cleared ELSE {c})
        ELSE {c} \cup cleared

InvalidateDocument(ix, docID) == [ix EXCEPT !.docMetaCache = Del(@, docID)]

(***************************************************************************)
(* Goroutines inside getFromL1.  getFromL1 holds l1Mutex.RLock(), which    *)
(* any number of goroutines hold at once, and its moveToFront writes       *)
(* c.l1Order:                                                              *)
(*     for i, k := range c.l1Order { if k == key {                         *)
(*         c.l1Order = append([]string{key},                               *)
(*                        append(c.l1Order[:i], c.l1Order[i+1:]...)...) }} *)
(* The steps of one goroutine: the range loop finds i ("scanned"); the     *)
(* inner append moves the elements after i one place down inside the       *)
(* array c.l1Order points to and yields a slice of it ("shifted"); the     *)
(* outer append copies that slice behind key into a new array, which is    *)
(* stored in c.l1Order.  cache.l1Order is the content of the array         *)
(* c.l1Order points to; a goroutine whose slice is of an array that        *)
(* c.l1Order has left keeps the content of that array (own).  The model    *)
(* has two such goroutines, so no third one shares an array left behind.   *)
(***************************************************************************)
Readers == {"g1", "g2"}
Idle == [pc |-> "idle"]
NoReaders == [g \in Readers |-> Idle]

\* append(s[:i], s[i+1:]...): the array after the move (i counts from 1)
shiftInPlace(arr, i) ==
    [j \in 1..Len(arr) |-> IF j >= i /\ j < Len(arr) THEN arr[j + 1] ELSE arr[j]]

\* the array a goroutine's slice is of
sliceArray(c, rd) == IF rd.own THEN rd.arr ELSE c.l1Order

(***************************************************************************)
(* The crawler: CrawlRecursive(seedURL).  The caller ("main") calls        *)
(* worker(seedURL, 0) and then wg.Wait(); worker starts one goroutine per  *)
(* url it has put into visitedURLs, and the goroutine calls worker for     *)
(* every url Crawl has extracted.  A thread is "main" or a goroutine, named *)
(* by the url of the thread that started it and its own url.               *)
(***************************************************************************)
\* the pages and their links: more links on one page than the semaphore has
\* entries, a cycle (s, u), a page several goroutines reach (w), and a page
\* nothing links to (z); a cycle of two pages (A, B) under a page that
\* links to both (P); a page (H) whose hrefs are empty, not parseable, of
\* another scheme, and relative; and a page (K) that links to L and to M,
\* where L links to M too and only M links to N.  A name stands for the
\* absolute URL "http://h/" + name.
URLs == {"s", "u", "v", "w", "z", "A", "B", "P", "H", "K", "L", "M", "N"}

Links == [url \in URLs |->
            CASE url = "s" -> {"u", "v", "w"}
              [] url = "u" -> {"w", "s"}
              [] url = "v" -> {"w"}
              [] url = "w" -> {}
              [] url = "z" -> {"s"}
              [] url = "A" -> {"B"}
              [] url = "B" -> {"A"}
              [] url = "P" -> {"A", "B"}
              [] url = "H" -> {"", ":", "mailto:m", "/w", "w"}
              [] url = "K" -> {"L", "M"}
              [] url = "L" -> {"M"}
              [] url = "M" -> {"N"}
              [] url = "N" -> {}]

\* the text of each page
Text == [url \in URLs |->
            CASE url \in {"B", "u"} -> "a b"
              [] url \in {"P", "w"} -> ""
              [] OTHER -> "a"]

\* the body the server sends for url: its text and the href values of its
\* A tags
Body(url) == [text |-> Text[url], links |-> Links[url]]

\* url.Parse on the strings of the model: a *url.URL, or the error "missing
\* protocol scheme"
urlParse(rawURL) ==
    IF rawURL \in URLs
    THEN [err |-> FALSE, Scheme |-> "http", Host |-> "h", Path |-> rawURL]
    ELSE IF \E name \in URLs : rawURL = "/" \o name
    THEN [err |-> FALSE, Scheme |-> "", Host |-> "",
          Path |-> CHOOSE name \in URLs : rawURL = "/" \o name]
    ELSE IF rawURL = "mailto:m"
    THEN [err |-> FALSE, Scheme |-> "mailto", Host |-> "", Path |-> "m"]
    ELSE IF rawURL = ""
    THEN [err |-> FALSE, Scheme |-> "", Host |-> "", Path |-> ""]
    ELSE [err |-> TRUE, Scheme |-> "", Host |-> "", Path |-> ""]

\* u.IsAbs()
IsAbs(u) == u.Scheme # ""

isValidHTTPURL(u) == u.Host # "" /\ (u.Scheme = "https" \/ u.Scheme = "http")

\* base.ResolveReference(ref) for a ref with an absolute path and no host
ResolveReference(base, ref) == [base EXCEPT !.Path = ref.Path]

\* u.String()
String(u) ==
    IF u.Scheme = "http" /\ u.Host = "h" THEN u.Path
    ELSE u.Scheme \o ":" \o u.Path

preprocessRawURL(rawURL, baseURL) ==
    IF rawURL = "" THEN ""
    ELSE LET rawURLObj == urlParse(rawURL)
             baseURLObj == urlParse(baseURL)
         IN  IF rawURLObj.err THEN ""
             ELSE IF IsAbs(rawURLObj)
             THEN (IF isValidHTTPURL(rawURLObj) THEN String(rawURLObj) ELSE "")
             ELSE IF baseURLObj.err THEN ""
             ELSE LET resolvedURL == ResolveReference(baseURLObj, rawURLObj)
                  IN  IF isValidHTTPURL(resolvedURL) THEN String(resolvedURL)
                      ELSE ""

\* an extractor that finds no href
URLExtractorNone(body, baseURL) == {}

\* extractedURLs[url] = struct{}{} for the href of every A tag, with
\* url := preprocessRawURL(rawURL, baseURL)
URLExtractor(body, baseURL) ==
    {preprocessRawURL(rawURL, baseURL) : rawURL \in body.links}

\* http.Get(url) and the status test: no answer for a string that is not
\* the URL of a page, an answer or not for a page of broken
httpGetOK(url) ==
    IF url \notin URLs THEN {FALSE}
    ELSE IF url \in broken THEN BOOLEAN ELSE {TRUE}

seedURL == "s"

Main == "main"

\* the caller, and one goroutine for each seed and each link of a page
ThreadNames ==
    {Main} \cup {Main \o ">" \o url : url \in URLs}
           \cup UNION {{t \o ">" \o url : url \in URLExtractor(Body(t), t)} :
                           t \in URLs}

goroutine(t, url) == (IF t = Main THEN Main ELSE threads[t].url) \o ">" \o url

\* curr_depth of the worker calls a thread makes
callDepth(t) == IF t = Main THEN 0 ELSE threads[t].curr_depth + 1

\* where a thread goes on when its call of worker returns
afterWorker(t) == IF t = Main THEN "Wait" ELSE "range"

at(t, pc) == t \in DOMAIN threads /\ threads[t].pc = pc

goto(t, pc) == [threads EXCEPT ![t].pc = pc]

\* the package variables of the extractor as the program starts, with
\* ExtractText not yet in its loop's first select
NoExtract ==
    /\ IndexTargetChan = [buf |-> << >>, closed |-> FALSE]
    /\ extractorCtx = ""
    /\ extractorWg = 0
    /\ extractor = [pc |-> "select", filePath |-> "", sem |-> 0]
    /\ tasks = EmptyMap
    /\ shutdown = ""
    /\ panicked = {}
    /\ dataDir = EmptyMap
    /\ emitted = EmptyMap
    /\ received = EmptyMap

\* no AddDocument holds idx.mu, and nothing has read the index
Unlocked ==
    /\ writer = [pc |-> ""]
    /\ observed = [by |-> ""]

\* no SetQueryResult has been called
NoneStored == stored = EmptyMap

\* the locks: idx.mu, idx.docMetaMutex and docURLMu of the index, and the
\* mutexes of the three tiers and of the statistics of the cache
Mutexes == {"idx.mu", "idx.docMetaMutex", "docURLMu",
            "c.l1Mutex", "c.l2Mutex", "c.l3Mutex", "c.statsMutex"}

\* the goroutines that call the index and the cache
Callers == {"g1", "g2"}

\* no lock is held and no goroutine is in a call
NoCalls ==
    /\ mutexes = [m \in Mutexes |-> [w |-> "", r |-> [t \in Callers |-> 0]]]
    /\ calls = [t \in Callers |-> [op |-> "", todo |-> << >>]]

\* no CrawlRecursive is running
NoCrawl ==
    /\ maxDepth = 0
    /\ visitedURLs = {}
    /\ mu = ""
    /\ wg = 0
    /\ sem = 0
    /\ threads = EmptyMap
    /\ broken = {}
    /\ fetches = EmptyMap

\* a depth test that lets curr_depth = maxDepth through
workerInclusive(t) ==
    /\ at(t, "worker")
    /\ threads' = IF callDepth(t) > maxDepth
                  THEN goto(t, afterWorker(t)) ELSE goto(t, "Lock")
    /\ UNCHANGED <<maxDepth, visitedURLs, mu, wg, sem, broken, fetches,
                   indexVars, extractVars, lockVars, stored, orderVars>>

\* if curr_depth >= maxDepth { return }
worker(t) ==
    /\ at(t, "worker")
    /\ threads' = IF callDepth(t) >= maxDepth
                  THEN goto(t, afterWorker(t)) ELSE goto(t, "Lock")
    /\ UNCHANGED <<maxDepth, visitedURLs, mu, wg, sem, broken, fetches,
                   indexVars, extractVars, lockVars, stored, orderVars>>

\* mu.Lock() that does not wait for the mutex
muLockNoWait(t) ==
    /\ at(t, "Lock")
    /\ mu' = t
    /\ threads' = goto(t, "seen")
    /\ UNCHANGED <<maxDepth, visitedURLs, wg, sem, broken, fetches,
                   indexVars, extractVars, lockVars, stored, orderVars>>

\* mu.Lock()
muLock(t) ==
    /\ at(t, "Lock")
    /\ mu = ""
    /\ mu' = t
    /\ threads' = goto(t, "seen")
    /\ UNCHANGED <<maxDepth, visitedURLs, wg, sem, broken, fetches,
                   indexVars, extractVars, lockVars, stored, orderVars>>

\* if _, seen := visitedURLs[url]; seen { mu.Unlock(); return }
seen(t) ==
    /\ at(t, "seen")
    /\ IF threads[t].u \in visitedURLs
       THEN /\ mu' = ""
            /\ threads' = goto(t, afterWorker(t))
       ELSE /\ threads' = goto(t, "insert")
            /\ UNCHANGED mu
    /\ UNCHANGED <<maxDepth, visitedURLs, wg, sem, broken, fetches,
                   indexVars, extractVars, lockVars, stored, orderVars>>

\* visitedURLs[url] = struct{}{}; mu.Unlock()
insert(t) ==
    /\ at(t, "insert")
    /\ visitedURLs' = visitedURLs \cup {threads[t].u}
    /\ mu' = ""
    /\ threads' = goto(t, "go")
    /\ UNCHANGED <<maxDepth, wg, sem, broken, fetches,
                   indexVars, extractVars, lockVars, stored, orderVars>>

\* go func() without the wg.Add(1) before it
goNoAdd(t) ==
    /\ at(t, "go")
    /\ threads' = Put(goto(t, afterWorker(t)),
                      goroutine(t, threads[t].u),
                      [pc |-> "sem", url |-> threads[t].u,
                       curr_depth |-> callDepth(t), u |-> "",
                       extracted_urls |-> {}])
    /\ UNCHANGED <<maxDepth, visitedURLs, mu, wg, sem, broken, fetches,
                   indexVars, extractVars, lockVars, stored, orderVars>>

\* wg.Add(1); go func() { ... }(); worker returns
go(t) ==
    /\ at(t, "go")
    /\ wg' = wg + 1
    /\ threads' = Put(goto(t, afterWorker(t)),
                      goroutine(t, threads[t].u),
                      [pc |-> "sem", url |-> threads[t].u,
                       curr_depth |-> callDepth(t), u |-> "",
                       extracted_urls |-> {}])
    /\ UNCHANGED <<maxDepth, visitedURLs, mu, sem, broken, fetches,
                   indexVars, extractVars, lockVars, stored, orderVars>>

\* sem <- struct{}{} that does not wait for a free entry
semSendNoWait(g) ==
    /\ at(g, "sem")
    /\ sem' = sem + 1
    /\ fetches' = Put(fetches, threads[g].url,
                      Lookup(fetches, threads[g].url, 0) + 1)
    /\ threads' = goto(g, "Crawl")
    /\ UNCHANGED <<maxDepth, visitedURLs, mu, wg, broken,
                   indexVars, extractVars, lockVars, stored, orderVars>>

\* sem <- struct{}{}; Crawl(url) is called
semSend(g) ==
    /\ at(g, "sem")
    /\ sem < SemSize
    /\ sem' = sem + 1
    /\ fetches' = Put(fetches, threads[g].url,
                      Lookup(fetches, threads[g].url, 0) + 1)
    /\ threads' = goto(g, "Crawl")
    /\ UNCHANGED <<maxDepth, visitedURLs, mu, wg, broken,
                   indexVars, extractVars, lockVars, stored, orderVars>>

\* Crawl that extracts no url
CrawlNoLinks(g) ==
    /\ at(g, "Crawl")
    /\ threads' = IF TRUE \notin httpGetOK(threads[g].url)
                     \/ threads[g].url \in broken
                  THEN goto(g, "semReceive")
                  ELSE [threads EXCEPT ![g].pc = "range",
                                       ![g].extracted_urls = {}]
    /\ UNCHANGED <<maxDepth, visitedURLs, mu, wg, sem, broken, fetches,
                   indexVars, extractVars, lockVars, stored, orderVars>>

\* extracted_urls, err := Crawl(url); if err != nil { return }
Crawl(g) ==
    /\ at(g, "Crawl")
    /\ threads' = IF TRUE \notin httpGetOK(threads[g].url)
                     \/ threads[g].url \in broken
                  THEN goto(g, "semReceive")
                  ELSE [threads EXCEPT
                          ![g].pc = "range",
                          ![g].extracted_urls =
                              URLExtractor(Body(threads[g].url), threads[g].url)]
    /\ UNCHANGED <<maxDepth, visitedURLs, mu, wg, sem, broken, fetches,
                   indexVars, extractVars, lockVars, stored, orderVars>>

\* for u := range extracted_urls { worker(u, curr_depth+1) }: the next u, in
\* the order the map gives
range(g) ==
    /\ at(g, "range")
    /\ IF threads[g].extracted_urls = {}
       THEN threads' = goto(g, "semReceive")
       ELSE \E u \in threads[g].extracted_urls :
                threads' = [threads EXCEPT ![g].pc = "worker",
                                           ![g].u = u,
                                           ![g].extracted_urls = @ \ {u}]
    /\ UNCHANGED <<maxDepth, visitedURLs, mu, wg, sem, broken, fetches,
                   indexVars, extractVars, lockVars, stored, orderVars>>

\* defer func() { <-sem }()
semReceive(g) ==
    /\ at(g, "semReceive")
    /\ sem' = sem - 1
    /\ threads' = goto(g, "Done")
    /\ UNCHANGED <<maxDepth, visitedURLs, mu, wg, broken, fetches,
                   indexVars, extractVars, lockVars, stored, orderVars>>

\* defer wg.Done(); the goroutine ends
wgDone(g) ==
    /\ at(g, "Done")
    /\ wg' = wg - 1
    /\ threads' = goto(g, "exit")
    /\ UNCHANGED <<maxDepth, visitedURLs, mu, sem, broken, fetches,
                   indexVars, extractVars, lockVars, stored, orderVars>>

\* wg.Wait(); CrawlRecursive returns
wgWait ==
    /\ at(Main, "Wait")
    /\ wg = 0
    /\ threads' = goto(Main, "returned")
    /\ UNCHANGED <<maxDepth, visitedURLs, mu, wg, sem, broken, fetches,
                   indexVars, extractVars, lockVars, stored, orderVars>>

\* CrawlRecursive is called: maxDepth := cfg.SearchDepth, the empty hash set,
\* the mutex, the WaitGroup, the semaphore; "main" is about to call
\* worker(seedURL, 0)
CrawlRecursive(seed, depth, down) ==
    /\ maxDepth = depth
    /\ visitedURLs = {}
    /\ mu = ""
    /\ wg = 0
    /\ sem = 0
    /\ threads = Put(EmptyMap, Main,
                     [pc |-> "worker", url |-> "", curr_depth |-> 0,
                      u |-> seed, extracted_urls |-> {}])
    /\ broken = down
    /\ fetches = EmptyMap

(***************************************************************************)
(* Fetch and extraction.  Crawl(url) in two steps: the GET with the read   *)
(* of the body, and hashAndStore, which writes the body to cfg.DataURL and *)
(* sends the file path on the index channel.  ExtractText receives the     *)
(* paths and starts one goroutine per path, at most ExtractSemSize at a    *)
(* time; each calls processFile, which ends in InvertedIndex.AddDocument.  *)
(* ShutdownExtractor cancels the extractor's context, closes the channel   *)
(* and waits for the extractor's WaitGroup.                                *)
(*                                                                         *)
(* crawler.go sends on indexTargetChan and ExtractText receives from       *)
(* IndexTargetChan; they are taken to be the one channel of the package.   *)
(***************************************************************************)
DataURL == "data"

\* hex.EncodeToString(sha256.Sum256(url)): one digest per url
docIDOf(url) == "sha256(" \o url \o ")"

\* filepath.Join(dir, name + ext)
Join(dir, name, ext) == [dir |-> dir, name |-> name, ext |-> ext]

\* the file path "", the zero value a closed channel gives
NoPath == Join("", "", "")

\* strings.TrimSuffix(filepath.Base(filePath), ".html")
TrimSuffixBase(filePath) ==
    IF filePath.ext = ".html" THEN filePath.name ELSE filePath.name \o filePath.ext

\* the text nodes of a body, trimmed and joined
parseHTML(body) == body.text

\* a failing GET that ends the goroutine without its deferred calls
httpGetAbort(g) ==
    /\ at(g, "Crawl")
    /\ \E ok \in httpGetOK(threads[g].url) :
           threads' = goto(g, IF ok THEN "hashAndStore" ELSE "exit")
    /\ UNCHANGED <<maxDepth, visitedURLs, mu, wg, sem, broken, fetches,
                   indexVars, extractVars, lockVars, stored, orderVars>>

\* resp, err := http.Get(url); the status test; io.ReadAll(resp.Body).  For
\* a url of broken either this fails or the write of hashAndStore does.
httpGet(g) ==
    /\ at(g, "Crawl")
    /\ \E ok \in httpGetOK(threads[g].url) :
           threads' = goto(g, IF ok THEN "hashAndStore" ELSE "semReceive")
    /\ UNCHANGED <<maxDepth, visitedURLs, mu, wg, sem, broken, fetches,
                   indexVars, extractVars, lockVars, stored, orderVars>>

\* hashAndStore with a send that drops the path when the buffer is full
hashAndStoreDropping(g) ==
    /\ at(g, "hashAndStore")
    /\ LET url == threads[g].url
           file_path == Join(DataURL, docIDOf(url), ".html")
       IN  IF url \in broken
           THEN /\ threads' = goto(g, "semReceive")
                /\ UNCHANGED <<IndexTargetChan, panicked, dataDir, emitted>>
           ELSE IF IndexTargetChan.closed
           THEN /\ threads' = goto(g, "panic")
                /\ panicked' = panicked \cup {"send on closed channel"}
                /\ dataDir' = Put(dataDir, file_path, Body(url))
                /\ UNCHANGED <<IndexTargetChan, emitted>>
           ELSE /\ IndexTargetChan' =
                       IF Len(IndexTargetChan.buf) < ChanSize
                       THEN [IndexTargetChan EXCEPT !.buf = Append(@, file_path)]
                       ELSE IndexTargetChan
                /\ dataDir' = Put(dataDir, file_path, Body(url))
                /\ emitted' = Put(emitted, file_path,
                                  Lookup(emitted, file_path, 0) + 1)
                /\ threads' = [threads EXCEPT
                                 ![g].pc = "range",
                                 ![g].extracted_urls = URLExtractor(Body(url), url)]
                /\ UNCHANGED panicked
    /\ UNCHANGED <<maxDepth, visitedURLs, mu, wg, sem, broken, fetches,
                   indexVars, extractorCtx, extractorWg, extractor, tasks,
                   shutdown, received, lockVars, stored, orderVars>>

\* hashAndStore(url, body_content): os.WriteFile, then
\* indexTargetChan <- file_path, which waits for room in the buffer and
\* panics on a closed channel; then URLExtractor(body_content, url)
hashAndStore(g) ==
    /\ at(g, "hashAndStore")
    /\ LET url == threads[g].url
           file_path == Join(DataURL, docIDOf(url), ".html")
       IN  IF url \in broken
           THEN /\ threads' = goto(g, "semReceive")
                /\ UNCHANGED <<IndexTargetChan, panicked, dataDir, emitted>>
           ELSE IF IndexTargetChan.closed
           THEN /\ threads' = goto(g, "panic")
                /\ panicked' = panicked \cup {"send on closed channel"}
                /\ dataDir' = Put(dataDir, file_path, Body(url))
                /\ UNCHANGED <<IndexTargetChan, emitted>>
           ELSE /\ Len(IndexTargetChan.buf) < ChanSize
                /\ IndexTargetChan' =
                       [IndexTargetChan EXCEPT !.buf = Append(@, file_path)]
                /\ dataDir' = Put(dataDir, file_path, Body(url))
                /\ emitted' = Put(emitted, file_path,
                                  Lookup(emitted, file_path, 0) + 1)
                /\ threads' = [threads EXCEPT
                                 ![g].pc = "range",
                                 ![g].extracted_urls = URLExtractor(Body(url), url)]
                /\ UNCHANGED panicked
    /\ UNCHANGED <<maxDepth, visitedURLs, mu, wg, sem, broken, fetches,
                   indexVars, extractorCtx, extractorWg, extractor, tasks,
                   shutdown, received, lockVars, stored, orderVars>>

\* a task: the filePath it was started with, and where it is
Task(filePath, pc) == [filePath |-> filePath, pc |-> pc]

RECURSIVE count(_, _)
count(bag, S) ==
    IF S = {} THEN 0
    ELSE LET k == CHOOSE k \in S : TRUE
         IN  bag[k] + count(bag, S \ {k})

\* the number of tasks started with filePath
TasksOf(filePath) == count(tasks, {k \in DOMAIN tasks : k.filePath = filePath})

\* the number of tasks at one of the places pcs
TasksAt(pcs) == count(tasks, {k \in DOMAIN tasks : k.pc \in pcs})

\* one more task at k
started(bag, k) == Put(bag, k, Lookup(bag, k, 0) + 1)

\* a task with filePath goes from pc to next
step(bag, filePath, pc, next) ==
    LET k == Task(filePath, pc)
        rest == IF bag[k] = 1 THEN Del(bag, k) ELSE [bag EXCEPT ![k] = @ - 1]
    IN  started(rest, Task(filePath, next))

\* select: case filePath := <-IndexTargetChan, with a path in the buffer
receive ==
    /\ extractor.pc = "select"
    /\ IndexTargetChan.buf # << >>
    /\ extractor' = [extractor EXCEPT !.pc = "sem",
                                      !.filePath = Head(IndexTargetChan.buf)]
    /\ IndexTargetChan' = [IndexTargetChan EXCEPT !.buf = Tail(@)]
    /\ received' = Put(received, Head(IndexTargetChan.buf),
                       Lookup(received, Head(IndexTargetChan.buf), 0) + 1)
    /\ UNCHANGED <<extractorCtx, extractorWg, tasks, shutdown, panicked,
                   dataDir, emitted, crawlVars, indexVars, lockVars, stored, orderVars>>

\* select: case filePath := <-IndexTargetChan, on the closed and empty
\* channel: the receive does not wait and gives ""
receiveClosed ==
    /\ extractor.pc = "select"
    /\ IndexTargetChan.buf = << >>
    /\ IndexTargetChan.closed
    /\ TasksOf(NoPath) < MaxEmpty
    /\ extractor' = [extractor EXCEPT !.pc = "sem", !.filePath = NoPath]
    /\ UNCHANGED <<IndexTargetChan, extractorCtx, extractorWg, tasks, shutdown,
                   panicked, dataDir, emitted, received, crawlVars, indexVars,
                   lockVars, stored, orderVars>>

\* the start of a task without the wait for a free entry of sem
spawnNoWait ==
    /\ extractor.pc = "sem"
    /\ extractor' = [extractor EXCEPT !.pc = "select", !.filePath = "",
                                      !.sem = @ + 1]
    /\ extractorWg' = extractorWg + 1
    /\ tasks' = started(tasks, Task(extractor.filePath, "processFile"))
    /\ UNCHANGED <<IndexTargetChan, extractorCtx, shutdown, panicked, dataDir,
                   emitted, received, crawlVars, indexVars, lockVars, stored, orderVars>>

\* sem <- struct{}{}; extractorWg.Add(1); go func(filePath string) {...}
spawn ==
    /\ extractor.pc = "sem"
    /\ extractor.sem < ExtractSemSize
    /\ extractor' = [extractor EXCEPT !.pc = "select", !.filePath = "",
                                      !.sem = @ + 1]
    /\ extractorWg' = extractorWg + 1
    /\ tasks' = started(tasks, Task(extractor.filePath, "processFile"))
    /\ UNCHANGED <<IndexTargetChan, extractorCtx, shutdown, panicked, dataDir,
                   emitted, received, crawlVars, indexVars, lockVars, stored, orderVars>>

\* select: case <-extractorCtx.Done()
ctxDone ==
    /\ extractor.pc = "select"
    /\ extractorCtx = "Done"
    /\ extractor' = [extractor EXCEPT !.pc = "Wait"]
    /\ UNCHANGED <<IndexTargetChan, extractorCtx, extractorWg, tasks, shutdown,
                   panicked, dataDir, emitted, received, crawlVars, indexVars,
                   lockVars, stored, orderVars>>

\* extractorWg.Wait(); return (and the deferred close(sem))
extractorWgWait ==
    /\ extractor.pc = "Wait"
    /\ extractorWg = 0
    /\ extractor' = [extractor EXCEPT !.pc = "returned"]
    /\ UNCHANGED <<IndexTargetChan, extractorCtx, extractorWg, tasks, shutdown,
                   panicked, dataDir, emitted, received, crawlVars, indexVars,
                   lockVars, stored, orderVars>>

\* the file paths tasks are started with
TaskPaths == {Join(DataURL, docIDOf(url), ".html") : url \in URLs} \cup {NoPath}

\* processFile(filePath): os.Stat, os.ReadFile, parseHTML, Tokenize and
\* InvertedIndex.AddDocument(docID, tokens), with a return at each step that
\* finds nothing
processFile(filePath) ==
    /\ Task(filePath, "processFile") \in DOMAIN tasks
    /\ tasks' = step(tasks, filePath, "processFile", "release")
    /\ LET rawTextFile == parseHTML(dataDir[filePath])
           tokens == Tokenize(rawTextFile)
           docID == TrimSuffixBase(filePath)
           r == AddDocument(idx, cache, DocURLMap, docID, tokens, now)
       IN  IF \/ filePath \notin DOMAIN dataDir
              \/ rawTextFile = ""
              \/ Len(tokens) = 0
           THEN UNCHANGED <<idx, cache, called, ingested, last>>
           ELSE /\ idx' = r.idx
                /\ cache' = r.cache
                /\ called' = called \cup {docID}
                /\ ingested' = IF r.indexed THEN Put(ingested, docID, tokens)
                               ELSE ingested
                /\ last' = [op |-> "AddDocument", docID |-> docID,
                            indexed |-> r.indexed, again |-> docID \in called]
    /\ UNCHANGED <<DocURLMap, readers, IndexTargetChan, extractorCtx,
                   extractorWg, extractor, shutdown, panicked, dataDir,
                   emitted, received, crawlVars, lockVars, stored, orderVars>>

\* defer func() { <-sem }()
release(filePath) ==
    /\ Task(filePath, "release") \in DOMAIN tasks
    /\ tasks' = step(tasks, filePath, "release", "Done")
    /\ extractor' = [extractor EXCEPT !.sem = @ - 1]
    /\ UNCHANGED <<IndexTargetChan, extractorCtx, extractorWg, shutdown,
                   panicked, dataDir, emitted, received, crawlVars, indexVars,
                   lockVars, stored, orderVars>>

\* defer extractorWg.Done(); the task ends
extractorWgDone(filePath) ==
    /\ Task(filePath, "Done") \in DOMAIN tasks
    /\ tasks' = step(tasks, filePath, "Done", "exit")
    /\ extractorWg' = extractorWg - 1
    /\ UNCHANGED <<IndexTargetChan, extractorCtx, extractor, shutdown,
                   panicked, dataDir, emitted, received, crawlVars, indexVars,
                   lockVars, stored, orderVars>>

\* ShutdownExtractor is called: extractorCancel()
extractorCancel ==
    /\ shutdown = ""
    /\ extractorCtx' = "Done"
    /\ shutdown' = "close"
    /\ UNCHANGED <<IndexTargetChan, extractorWg, extractor, tasks, panicked,
                   dataDir, emitted, received, crawlVars, indexVars,
                   lockVars, stored, orderVars>>

\* close(IndexTargetChan)
closeIndexTargetChan ==
    /\ shutdown = "close"
    /\ IF IndexTargetChan.closed
       THEN /\ panicked' = panicked \cup {"close of closed channel"}
            /\ shutdown' = "panic"
            /\ UNCHANGED IndexTargetChan
       ELSE /\ IndexTargetChan' = [IndexTargetChan EXCEPT !.closed = TRUE]
            /\ shutdown' = "Wait"
            /\ UNCHANGED panicked
    /\ UNCHANGED <<extractorCtx, extractorWg, extractor, tasks, dataDir,
                   emitted, received, crawlVars, indexVars, lockVars, stored, orderVars>>

\* extractorWg.Wait(); ShutdownExtractor returns
ShutdownExtractor ==
    /\ shutdown = "Wait"
    /\ extractorWg = 0
    /\ shutdown' = "returned"
    /\ UNCHANGED <<IndexTargetChan, extractorCtx, extractorWg, extractor,
                   tasks, panicked, dataDir, emitted, received, crawlVars,
                   indexVars, lockVars, stored, orderVars>>

(***************************************************************************)
(* The cache on its own: Get, Set, SetQueryResult, GetQueryResult, Clear,  *)
(* the cleanup sweep and the access-time write-back, called in any order   *)
(* with time passing in between.  l2Dir may hold the files an earlier run  *)
(* of the process left there.                                              *)
(***************************************************************************)
NoOp == [op |-> "none"]

\* l2CurrentSize is an int64 and the number of write-back goroutines has no
\* bound of its own: an operation that would take the
\* account out of -MaxAccount..MaxAccount, or start a write-back while
\* MaxPending of them have not run yet, is not called
Bounded(c) ==
    /\ c.l2CurrentSize \in (0 - MaxAccount)..MaxAccount
    /\ Cardinality(c.l2Pending) <= MaxPending

CacheConfig ==
    [L1MaxItems |-> L1MaxItems, L1TTL |-> L1TTL, L2MaxSizeMB |-> L2MaxSize,
     L2TTL |-> L2TTL, L3TTL |-> L3TTL]

\* a file of an earlier run: written L2TTL before it expires
oldFile(n, exp) ==
    [Data |-> jsonRoundTrip(Raw(n), EmptyMap), ExpiresAt |-> exp,
     modTime |-> exp - L2TTL, size |-> n]

CacheDirs ==
    {EmptyMap} \cup
    {[k \in {generateKey("x")} |-> oldFile(n, exp)] :
        n \in {m \in 1..MaxItemSize : m <= L2MaxSize}, exp \in {-1, 1}}

InitCache ==
    /\ \E files \in CacheDirs :
           cache = calculateL2Size(NewMultiLayerCache(CacheConfig, files))
    /\ idx = NewInvertedIndex
    /\ DocURLMap = EmptyMap
    /\ readers = NoReaders
    /\ called = {}
    /\ ingested = EmptyMap
    /\ last = NoOp
    /\ NoCrawl
    /\ NoExtract
    /\ Unlocked
    /\ NoneStored
    /\ NoCalls

CacheGet(key) ==
    LET r == Get(cache, key, EmptyMap, now)
    IN  /\ cache' = r.c
        /\ last' = [op |-> "Get", key |-> key, found |-> r.found,
                    data |-> r.data, tier |-> r.tier, at |-> now,
                    expires |-> r.expires]
        /\ Bounded(cache')
        /\ UNCHANGED <<idx, DocURLMap, readers, called, ingested, crawlVars, extractVars,
                   lockVars, stored, orderVars>>

CacheGetQueryResult(query) ==
    LET r == GetQueryResult(cache, query, EmptyMap, now)
    IN  /\ cache' = r.c
        /\ last' = [op |-> "GetQueryResult", key |-> query, found |-> r.found,
                    data |-> r.data, tier |-> r.tier, at |-> now,
                    expires |-> r.expires]
        /\ Bounded(cache')
        /\ UNCHANGED <<idx, DocURLMap, readers, called, ingested, crawlVars, extractVars,
                   lockVars, stored, orderVars>>

CacheSet(key, n) ==
    /\ cache' = Set(cache, key, Raw(n), EmptyMap, now)
    /\ Bounded(cache')
    /\ last' = [op |-> "Set", key |-> key, size |-> n]
    /\ UNCHANGED <<idx, DocURLMap, readers, called, ingested, crawlVars, extractVars,
                   lockVars, stored, orderVars>>

CacheSetQueryResult(query, n) ==
    /\ cache' = SetQueryResult(cache, query, Raw(n), now)
    /\ Bounded(cache')
    /\ last' = [op |-> "SetQueryResult", key |-> query, size |-> n]
    /\ UNCHANGED <<idx, DocURLMap, readers, called, ingested, crawlVars, extractVars,
                   lockVars, stored, orderVars>>

CacheClear ==
    /\ cache' = Clear(cache)
    /\ last' = [op |-> "Clear"]
    /\ UNCHANGED <<idx, DocURLMap, readers, called, ingested, crawlVars, extractVars,
                   lockVars, stored, orderVars>>

CacheCleanup ==
    /\ cache' = cleanup(cache, now)
    /\ Bounded(cache')
    /\ last' = NoOp
    /\ UNCHANGED <<idx, DocURLMap, readers, called, ingested, crawlVars, extractVars,
                   lockVars, stored, orderVars>>

WriteBack ==
    /\ \E p \in cache.l2Pending : cache' = writeBack(cache, p, now)
    /\ Bounded(cache')
    /\ last' = NoOp
    /\ UNCHANGED <<idx, DocURLMap, readers, called, ingested, crawlVars, extractVars,
                   lockVars, stored, orderVars>>

\* one tick of the clock passes
Tick ==
    /\ cache' = elapse(cache)
    /\ last' = NoOp
    /\ UNCHANGED <<idx, DocURLMap, readers, called, ingested, crawlVars, extractVars,
                   lockVars, stored, orderVars>>

NextCache ==
    \/ \E key \in CacheKeys : CacheGet(key)
    \/ \E query \in CacheQueries : CacheGetQueryResult(query)
    \/ \E key \in CacheKeys, n \in 1..MaxItemSize : CacheSet(key, n)
    \/ \E query \in CacheQueries, n \in 1..MaxItemSize :
           CacheSetQueryResult(query, n)
    \/ CacheClear
    \/ CacheCleanup
    \/ WriteBack
    \/ Tick

SpecCache == InitCache /\ [][NextCache]_vars

(***************************************************************************)
(* The cache with its counters, within one tick of the clock: L1 of two    *)
(* items, L2MaxSizeMB out of reach, Set and Get on three keys, one query,  *)
(* Clear and the write-back.  The counters count up to StatCap.            *)
(* The write-back goroutine takes no lock.  Clear holds l1Mutex, l2Mutex   *)
(* and l3Mutex one after the other; a write-back that runs after Clear     *)
(* has released l2Mutex and before Clear returns neither reads nor writes  *)
(* what the rest of Clear does, so it is taken together with Clear in one  *)
(* step (CacheClearWriteBack).                                             *)
(***************************************************************************)
LRUConfig ==
    [L1MaxItems |-> 2, L1TTL |-> L1TTL,
     L2MaxSizeMB |-> IndexL2MaxSize, L2TTL |-> L2TTL, L3TTL |-> L3TTL]

InitLRU ==
    /\ cache = [calculateL2Size(NewMultiLayerCache(LRUConfig, EmptyMap))
                   EXCEPT !.statCap = StatCap]
    /\ idx = NewInvertedIndex
    /\ DocURLMap = EmptyMap
    /\ readers = NoReaders
    /\ called = {}
    /\ ingested = EmptyMap
    /\ last = NoOp
    /\ NoCrawl
    /\ NoExtract
    /\ Unlocked
    /\ NoneStored
    /\ NoCalls

CacheClearWriteBack ==
    /\ \E p \in cache.l2Pending : cache' = writeBack(Clear(cache), p, now)
    /\ last' = [op |-> "Clear"]
    /\ UNCHANGED <<idx, DocURLMap, readers, called, ingested, crawlVars, extractVars,
                   lockVars, stored, orderVars>>

NextLRU ==
    \/ \E key \in LRUKeys : CacheGet(key)
    \/ \E query \in CacheQueries : CacheGetQueryResult(query)
    \/ \E key \in LRUKeys : CacheSet(key, 1)
    \/ \E query \in CacheQueries : CacheSetQueryResult(query, 1)
    \/ CacheClear
    \/ CacheClearWriteBack
    \/ WriteBack

SpecLRU == InitLRU /\ [][NextLRU]_vars

\* SpecEvict: Set and Get alone, on the cache of SpecLRU
NextEvict ==
    \/ \E key \in LRUKeys : CacheGet(key)
    \/ \E key \in LRUKeys : CacheSet(key, 1)
    \/ WriteBack

SpecEvict == InitLRU /\ [][NextEvict]_vars

(***************************************************************************)
(* Concurrent callers of the cache: Set, and Get from two goroutines.  A   *)
(* Get that hits L1 runs getFromL1 step by step; l1Mutex.Lock() in         *)
(* setToL1 waits until no goroutine is inside getFromL1, so Set and a Get  *)
(* that misses L1 (and may promote) run while none is.  L2MaxSizeMB is out *)
(* of reach, every Set adds to l2CurrentSize, and a behaviour has as many  *)
(* Sets as MaxAccount allows.                                              *)
(***************************************************************************)
RaceConfig ==
    [L1MaxItems |-> 2, L1TTL |-> L1TTL,
     L2MaxSizeMB |-> IndexL2MaxSize, L2TTL |-> L2TTL, L3TTL |-> L3TTL]

InitRace ==
    /\ cache = calculateL2Size(NewMultiLayerCache(RaceConfig, EmptyMap))
    /\ idx = NewInvertedIndex
    /\ DocURLMap = EmptyMap
    /\ readers = NoReaders
    /\ called = {}
    /\ ingested = EmptyMap
    /\ last = NoOp
    /\ NoCrawl
    /\ NoExtract
    /\ Unlocked
    /\ NoneStored
    /\ NoCalls

RaceSet(key) ==
    /\ readers = NoReaders
    /\ cache' = Set(cache, key, Raw(1), EmptyMap, now)
    /\ Bounded(cache')
    /\ last' = [op |-> "Set", key |-> key, size |-> 1]
    /\ UNCHANGED <<idx, DocURLMap, readers, called, ingested, crawlVars, extractVars,
                   lockVars, stored, orderVars>>

RaceGetMiss(key) ==
    /\ readers = NoReaders
    /\ ~getFromL1(cache, generateKey(key), now).found
    /\ LET r == Get(cache, key, EmptyMap, now)
       IN  /\ cache' = r.c
           /\ Bounded(cache')
           /\ last' = [op |-> "Get", key |-> key, found |-> r.found,
                       data |-> r.data, tier |-> r.tier, at |-> now,
                       expires |-> r.expires]
    /\ UNCHANGED <<idx, DocURLMap, readers, called, ingested, crawlVars, extractVars,
                   lockVars, stored, orderVars>>

\* RLock; the item is there and has not expired; Touch; the range loop
RdScan(g, key) ==
    LET hashKey == generateKey(key)
        i == indexOf(cache.l1Order, hashKey, 1)
    IN  /\ readers[g].pc = "idle"
        /\ hashKey \in DOMAIN cache.l1Cache
        /\ ~IsExpired(cache.l1Cache[hashKey], now)
        /\ IF i = 0
           THEN /\ cache' = incrementStat(cache, "l1_hits")
                /\ UNCHANGED readers
           ELSE /\ readers' = [readers EXCEPT ![g] =
                                  [pc |-> "scanned", key |-> hashKey, i |-> i]]
                /\ UNCHANGED cache
        /\ last' = NoOp
        /\ UNCHANGED <<idx, DocURLMap, called, ingested, crawlVars, extractVars,
                   lockVars, stored, orderVars>>

\* the inner append, inside the array c.l1Order points to now
RdShift(g) ==
    /\ readers[g].pc = "scanned"
    /\ cache' = [cache EXCEPT !.l1Order = shiftInPlace(@, readers[g].i)]
    /\ readers' = [readers EXCEPT ![g] =
                      [pc |-> "shifted", key |-> readers[g].key,
                       i |-> readers[g].i, own |-> FALSE, arr |-> << >>]]
    /\ last' = NoOp
    /\ UNCHANGED <<idx, DocURLMap, called, ingested, crawlVars, extractVars,
                   lockVars, stored, orderVars>>

\* the outer append and the store to c.l1Order; RUnlock; Get counts the hit
RdStore(g) ==
    LET arr == sliceArray(cache, readers[g])
        new == <<readers[g].key>> \o SubSeq(arr, 1, Len(arr) - 1)
    IN  /\ readers[g].pc = "shifted"
        /\ cache' = incrementStat([cache EXCEPT !.l1Order = new], "l1_hits")
        /\ readers' = [h \in Readers |->
                          IF h = g THEN Idle
                          ELSE IF readers[h].pc = "shifted" /\ ~readers[h].own
                               THEN [readers[h] EXCEPT !.own = TRUE,
                                                       !.arr = cache.l1Order]
                               ELSE readers[h]]
        /\ last' = [op |-> "Get", key |-> readers[g].key, found |-> TRUE]
        /\ UNCHANGED <<idx, DocURLMap, called, ingested, crawlVars, extractVars,
                   lockVars, stored, orderVars>>

NextRace ==
    \/ \E key \in RaceKeys : RaceSet(key)
    \/ \E key \in RaceKeys : RaceGetMiss(key)
    \/ \E g \in Readers, key \in RaceKeys : RdScan(g, key)
    \/ \E g \in Readers : RdShift(g)
    \/ \E g \in Readers : RdStore(g)

SpecRace == InitRace /\ [][NextRace]_vars

(***************************************************************************)
(* The index with its cache: AddDocument, Search, PrewarmCache,            *)
(* OptimizeCache, InvalidateDocument and ClearCache called in any order,   *)
(* and the cache's cleanup sweep, all within one tick of the clock.  Every *)
(* exported operation holds idx.mu or runs to its end before the next      *)
(* starts.  The process starts with an empty l2Dir; with L1MaxItems out of *)
(* reach nothing leaves L1, no Get is served by L2, and no write-back is   *)
(* started.                                                                *)
(***************************************************************************)
\* NewInvertedIndex: L1MaxItems and L2MaxSizeMB that the workload does not
\* reach, L1TTL = 2 * L3TTL, L2TTL the default, longer than both
IndexConfig ==
    [L1MaxItems |-> IndexL1MaxItems, L1TTL |-> L1TTL,
     L2MaxSizeMB |-> IndexL2MaxSize, L2TTL |-> IndexL2TTL, L3TTL |-> L3TTL]

\* the token lists documents come with: none, one token, two different
\* tokens, the same token twice
TokenLists == {<< >>, <<"a">>, <<"b", "a">>, <<"a", "a">>}

oldDocFile(tokens, exp) ==
    [Data |-> jsonRoundTrip([typ |-> "docData",
                             val |-> [tokens |-> tokens,
                                      metadata |-> NewDocumentMetadata("", Len(tokens))]],
                            EmptyMap),
     ExpiresAt |-> exp, modTime |-> exp - IndexL2TTL, size |-> 1]

Init ==
    /\ cache = calculateL2Size(NewMultiLayerCache(IndexConfig, EmptyMap))
    /\ idx = NewInvertedIndex
    /\ DocURLMap = EmptyMap
    /\ readers = NoReaders
    /\ called = {}
    /\ ingested = EmptyMap
    /\ last = NoOp
    /\ NoCrawl
    /\ NoExtract
    /\ Unlocked
    /\ NoneStored
    /\ NoCalls

IndexAddDocument(docID, tokens) ==
    LET r == AddDocument(idx, cache, DocURLMap, docID, tokens, now)
    IN  /\ idx' = r.idx
        /\ cache' = r.cache
        /\ Bounded(cache')
        /\ called' = called \cup {docID}
        /\ ingested' = IF r.indexed THEN Put(ingested, docID, tokens) ELSE ingested
        /\ last' = [op |-> "AddDocument", docID |-> docID,
                    indexed |-> r.indexed, again |-> docID \in called]
        /\ UNCHANGED <<DocURLMap, readers, crawlVars, extractVars, lockVars, stored, orderVars>>

IndexSearch(query, topK) ==
    \E r \in Search(idx, cache, DocURLMap, query, topK, now) :
        /\ cache' = r.cache
        /\ Bounded(cache')
        /\ last' = [op |-> "Search", query |-> query, topK |-> topK,
                    results |-> r.results, fromCache |-> r.fromCache]
        /\ UNCHANGED <<idx, DocURLMap, readers, called, ingested, crawlVars, extractVars,
                   lockVars, stored, orderVars>>

IndexPrewarmCache ==
    /\ \E c \in PrewarmCache(idx, cache, now) : cache' = c
    /\ Bounded(cache')
    /\ last' = NoOp
    /\ UNCHANGED <<idx, DocURLMap, readers, called, ingested, crawlVars, extractVars,
                   lockVars, stored, orderVars>>

IndexOptimizeCache ==
    /\ \E c \in OptimizeCache(idx, cache, now) : cache' = c
    /\ Bounded(cache')
    /\ last' = NoOp
    /\ UNCHANGED <<idx, DocURLMap, readers, called, ingested, crawlVars, extractVars,
                   lockVars, stored, orderVars>>

IndexInvalidateDocument(docID) ==
    /\ idx' = InvalidateDocument(idx, docID)
    /\ last' = NoOp
    /\ UNCHANGED <<cache, DocURLMap, readers, called, ingested, crawlVars, extractVars,
                   lockVars, stored, orderVars>>

IndexClearCache ==
    /\ cache' = ClearCache(cache)
    /\ last' = NoOp
    /\ UNCHANGED <<idx, DocURLMap, readers, called, ingested, crawlVars, extractVars,
                   lockVars, stored, orderVars>>

Next ==
    \/ \E docID \in Docs, tokens \in TokenLists : IndexAddDocument(docID, tokens)
    \/ \E query \in Queries, topK \in 0..MaxK : IndexSearch(query, topK)
    \/ IndexPrewarmCache
    \/ IndexOptimizeCache
    \/ \E docID \in Docs : IndexInvalidateDocument(docID)
    \/ IndexClearCache
    \/ CacheCleanup

Spec == Init /\ [][Next]_vars

(***************************************************************************)
(* SpecQuery: the index with a cache whose counters are read (GetStats),   *)
(* for what a Search does to the hit counters.                             *)
(***************************************************************************)
InitQuery ==
    /\ cache = [calculateL2Size(NewMultiLayerCache(IndexConfig, EmptyMap))
                   EXCEPT !.statCap = StatCap]
    /\ idx = NewInvertedIndex
    /\ DocURLMap = EmptyMap
    /\ readers = NoReaders
    /\ called = {}
    /\ ingested = EmptyMap
    /\ last = NoOp
    /\ NoCrawl
    /\ NoExtract
    /\ Unlocked
    /\ NoneStored
    /\ NoCalls

NextQuery ==
    \/ \E docID \in Docs, tokens \in TokenLists : IndexAddDocument(docID, tokens)
    \/ \E query \in Queries, topK \in 0..MaxK : IndexSearch(query, topK)
    \/ IndexClearCache

SpecQuery == InitQuery /\ [][NextQuery]_vars

(***************************************************************************)
(* SpecRank: SpecQuery with the two documents of the ranking scenario      *)
(* among those that are ingested: ten "a" in 100 tokens, one "a" in 10.    *)
(***************************************************************************)
LongDoc == [i \in 1..100 |-> IF i <= 10 THEN "a" ELSE "b"]

ShortDoc == [i \in 1..10 |-> IF i = 1 THEN "a" ELSE "b"]

RankLists == {<<"a">>, LongDoc, ShortDoc}

NextRank ==
    \/ \E docID \in Docs, tokens \in RankLists : IndexAddDocument(docID, tokens)
    \/ \E query \in Queries, topK \in {0, 1, 10} : IndexSearch(query, topK)
    \/ IndexClearCache

SpecRank == InitQuery /\ [][NextRank]_vars

(***************************************************************************)
(* SpecCrawl: one call of CrawlRecursive(seedURL) on the pages of URLs,    *)
(* with any SEARCH_DEPTH up to SearchDepth, every fetch succeeding or the  *)
(* fetch of one page failing.  SpecCrawlFair: every thread that can take a *)
(* step takes one in the end (the Go scheduler, and a server that          *)
(* answers).                                                               *)
(***************************************************************************)
InitCrawl ==
    /\ cache = calculateL2Size(NewMultiLayerCache(IndexConfig, EmptyMap))
    /\ idx = NewInvertedIndex
    /\ DocURLMap = EmptyMap
    /\ readers = NoReaders
    /\ called = {}
    /\ ingested = EmptyMap
    /\ last = NoOp
    /\ \E depth \in 0..SearchDepth, down \in {{}, {"v"}} :
           CrawlRecursive(seedURL, depth, down)
    /\ NoExtract
    /\ Unlocked
    /\ NoneStored
    /\ NoCalls

NextCrawl ==
    \/ \E t \in ThreadNames : worker(t)
    \/ \E t \in ThreadNames : muLock(t)
    \/ \E t \in ThreadNames : seen(t)
    \/ \E t \in ThreadNames : insert(t)
    \/ \E t \in ThreadNames : go(t)
    \/ \E g \in ThreadNames : semSend(g)
    \/ \E g \in ThreadNames : Crawl(g)
    \/ \E g \in ThreadNames : range(g)
    \/ \E g \in ThreadNames : semReceive(g)
    \/ \E g \in ThreadNames : wgDone(g)
    \/ wgWait

SpecCrawl == InitCrawl /\ [][NextCrawl]_vars

SpecCrawlFair == SpecCrawl /\ WF_vars(NextCrawl)

(***************************************************************************)
(* SpecHref: CrawlRecursive on the page H, whose A tags have an empty      *)
(* href, one that url.Parse refuses, a mailto: one, and a relative and an  *)
(* absolute one of the same page.                                          *)
(***************************************************************************)
InitHref ==
    /\ cache = calculateL2Size(NewMultiLayerCache(IndexConfig, EmptyMap))
    /\ idx = NewInvertedIndex
    /\ DocURLMap = EmptyMap
    /\ readers = NoReaders
    /\ called = {}
    /\ ingested = EmptyMap
    /\ last = NoOp
    /\ \E depth \in {2, 3}, down \in {{}, {"w"}} : CrawlRecursive("H", depth, down)
    /\ NoExtract
    /\ Unlocked
    /\ NoneStored
    /\ NoCalls

SpecHref == InitHref /\ [][NextCrawl]_vars

(***************************************************************************)
(* SpecDepth: CrawlRecursive on the page K with every fetch succeeding and *)
(* SEARCH_DEPTH 2 or 3.  M is one link from K and two links from K through *)
(* L; N is one link from M.                                                *)
(***************************************************************************)
depthSeed == "K"

InitDepth ==
    /\ cache = calculateL2Size(NewMultiLayerCache(IndexConfig, EmptyMap))
    /\ idx = NewInvertedIndex
    /\ DocURLMap = EmptyMap
    /\ readers = NoReaders
    /\ called = {}
    /\ ingested = EmptyMap
    /\ last = NoOp
    /\ \E depth \in {2, 3} : CrawlRecursive(depthSeed, depth, {})
    /\ NoExtract
    /\ Unlocked
    /\ NoneStored
    /\ NoCalls

SpecDepth == InitDepth /\ [][NextCrawl]_vars

(***************************************************************************)
(* SpecPipeline: a crawl with the extractor running.  The crawl is either  *)
(* CrawlRecursive(A) with SEARCH_DEPTH = 3 on the cycle A -> B -> A, or    *)
(* CrawlRecursive(P) with SEARCH_DEPTH = 2, where P links to A and B; the  *)
(* fetch of B may fail.  SpecCycle is the crawl of the cycle alone, and     *)
(* SpecShutdown is that crawl with ShutdownExtractor called at any moment. *)
(***************************************************************************)
Crawls == {[seed |-> "A", depth |-> 3], [seed |-> "P", depth |-> 2]}

InitPipeline ==
    /\ cache = calculateL2Size(NewMultiLayerCache(IndexConfig, EmptyMap))
    /\ idx = NewInvertedIndex
    /\ DocURLMap = EmptyMap
    /\ readers = NoReaders
    /\ called = {}
    /\ ingested = EmptyMap
    /\ last = NoOp
    /\ \E c \in Crawls, down \in {{}, {"B"}} :
           CrawlRecursive(c.seed, c.depth, down)
    /\ NoExtract
    /\ Unlocked
    /\ NoneStored
    /\ NoCalls

NextPipeline ==
    \/ \E t \in ThreadNames : worker(t)
    \/ \E t \in ThreadNames : muLock(t)
    \/ \E t \in ThreadNames : seen(t)
    \/ \E t \in ThreadNames : insert(t)
    \/ \E t \in ThreadNames : go(t)
    \/ \E g \in ThreadNames : semSend(g)
    \/ \E g \in ThreadNames : httpGet(g)
    \/ \E g \in ThreadNames : hashAndStore(g)
    \/ \E g \in ThreadNames : range(g)
    \/ \E g \in ThreadNames : semReceive(g)
    \/ \E g \in ThreadNames : wgDone(g)
    \/ wgWait
    \/ receive
    \/ spawn
    \/ \E filePath \in TaskPaths : processFile(filePath)
    \/ \E filePath \in TaskPaths : release(filePath)
    \/ \E filePath \in TaskPaths : extractorWgDone(filePath)

SpecPipeline == InitPipeline /\ [][NextPipeline]_vars

SpecPipelineFair == SpecPipeline /\ WF_vars(NextPipeline)

\* the two crawls with the fetch of B failing
InitFailure ==
    /\ cache = calculateL2Size(NewMultiLayerCache(IndexConfig, EmptyMap))
    /\ idx = NewInvertedIndex
    /\ DocURLMap = EmptyMap
    /\ readers = NoReaders
    /\ called = {}
    /\ ingested = EmptyMap
    /\ last = NoOp
    /\ \E c \in Crawls : CrawlRecursive(c.seed, c.depth, {"B"})
    /\ NoExtract
    /\ Unlocked
    /\ NoneStored
    /\ NoCalls

SpecFailure == InitFailure /\ [][NextPipeline]_vars

SpecFailureFair == SpecFailure /\ WF_vars(NextPipeline)

\* the steps of the program once ShutdownExtractor may have been called
NextRunning ==
    \/ \E t \in ThreadNames : worker(t)
    \/ \E t \in ThreadNames : muLock(t)
    \/ \E t \in ThreadNames : seen(t)
    \/ \E t \in ThreadNames : insert(t)
    \/ \E t \in ThreadNames : go(t)
    \/ \E g \in ThreadNames : semSend(g)
    \/ \E g \in ThreadNames : httpGet(g)
    \/ \E g \in ThreadNames : hashAndStore(g)
    \/ \E g \in ThreadNames : range(g)
    \/ \E g \in ThreadNames : semReceive(g)
    \/ \E g \in ThreadNames : wgDone(g)
    \/ wgWait
    \/ receive
    \/ receiveClosed
    \/ spawn
    \/ ctxDone
    \/ extractorWgWait
    \/ \E filePath \in TaskPaths : processFile(filePath)
    \/ \E filePath \in TaskPaths : release(filePath)
    \/ \E filePath \in TaskPaths : extractorWgDone(filePath)
    \/ closeIndexTargetChan
    \/ ShutdownExtractor

NextShutdown ==
    \/ NextRunning
    \/ extractorCancel

\* the crawl of the cycle, every fetch succeeding
InitCycle ==
    /\ cache = calculateL2Size(NewMultiLayerCache(IndexConfig, EmptyMap))
    /\ idx = NewInvertedIndex
    /\ DocURLMap = EmptyMap
    /\ readers = NoReaders
    /\ called = {}
    /\ ingested = EmptyMap
    /\ last = NoOp
    /\ CrawlRecursive("A", 3, {})
    /\ NoExtract
    /\ Unlocked
    /\ NoneStored
    /\ NoCalls

SpecCycle == InitCycle /\ [][NextPipeline]_vars

SpecCycleFair == SpecCycle /\ WF_vars(NextPipeline)

SpecShutdown == InitCycle /\ [][NextShutdown]_vars

SpecShutdownFair == SpecShutdown /\ WF_vars(NextRunning)

(***************************************************************************)
(* SpecLock: AddDocument statement by statement, between idx.mu.Lock() and *)
(* the deferred idx.mu.Unlock(), with the readers of the index running     *)
(* beside it.  Index.Search reads under idx.mu.RLock(); the methods of     *)
(* SearchEngine read se.index under se.mu.RLock(), the SearchEngine's own  *)
(* lock, which AddDocument does not take.                                  *)
(***************************************************************************)
IndexReaders ==
    {"Search", "findMatchedTerms", "hasExactMatch", "SuggestSimilar",
     "GetDocumentStats", "GetIndexStats"}

\* the lock a reader holds while it reads
lockOf(reader) == IF reader = "Search" THEN "idx.mu" ELSE "se.mu"

\* idx.mu.Lock(); the tests of the cache and of docLen, and the return (with
\* the deferred Unlock) when one of them finds the document
AddDocumentLock(docID, tokens) ==
    /\ writer.pc = ""
    /\ LET r == AddDocument(idx, cache, DocURLMap, docID, tokens, now)
       IN  IF r.indexed
           THEN /\ writer' = [pc |-> "docCount", docID |-> docID,
                              tokens |-> tokens, pos |-> 1, seen |-> {},
                              cache |-> r.cache]
                /\ cache' = Get(cache, "doc:" \o docID, idx.index, now).c
                /\ UNCHANGED <<called, ingested, last>>
           ELSE /\ cache' = r.cache
                /\ called' = called \cup {docID}
                /\ last' = [op |-> "AddDocument", docID |-> docID,
                            indexed |-> FALSE, again |-> docID \in called]
                /\ UNCHANGED <<writer, ingested>>
    /\ UNCHANGED <<idx, DocURLMap, readers, observed, crawlVars, extractVars,
                   stored, orderVars>>

\* the next statement of the AddDocument call that holds idx.mu: docCount++,
\* docLen[docID] = len(tokens), one round of the loop over tokens,
\* sumDocLen += len(tokens), the division for avgDL, and the metadata with
\* cache.Set and the deferred Unlock
AddDocumentStep ==
    /\ writer.pc # ""
    /\ LET docID == writer.docID
           tokens == writer.tokens
       IN  CASE writer.pc = "docCount" ->
                  /\ idx' = [idx EXCEPT !.docCount = @ + 1]
                  /\ writer' = [writer EXCEPT !.pc = "docLen"]
                  /\ UNCHANGED <<cache, called, ingested, last>>
             [] writer.pc = "docLen" ->
                  /\ idx' = [idx EXCEPT !.docLen = Put(@, docID, Len(tokens))]
                  /\ writer' = [writer EXCEPT
                                  !.pc = IF tokens = << >> THEN "sumDocLen" ELSE "range"]
                  /\ UNCHANGED <<cache, called, ingested, last>>
             [] writer.pc = "range" ->
                  /\ idx' = addToken(idx, docID, tokens, writer.pos, writer.seen)
                  /\ writer' = [writer EXCEPT
                                  !.pc = IF writer.pos = Len(tokens)
                                         THEN "sumDocLen" ELSE "range",
                                  !.pos = @ + 1,
                                  !.seen = @ \cup {tokens[writer.pos]}]
                  /\ UNCHANGED <<cache, called, ingested, last>>
             [] writer.pc = "sumDocLen" ->
                  /\ idx' = [idx EXCEPT !.sumDocLen = @ + Len(tokens)]
                  /\ writer' = [writer EXCEPT !.pc = "avgDL"]
                  /\ UNCHANGED <<cache, called, ingested, last>>
             [] writer.pc = "avgDL" ->
                  /\ idx' = recomputeAvgDL(idx)
                  /\ writer' = [writer EXCEPT !.pc = "metadata"]
                  /\ UNCHANGED <<cache, called, ingested, last>>
             [] writer.pc = "metadata" ->
                  /\ idx' = [idx EXCEPT !.docMetaCache =
                                Put(@, docID,
                                    NewDocumentMetadata(Lookup(DocURLMap, docID, ""),
                                                        Len(tokens)))]
                  /\ cache' = writer.cache
                  /\ called' = called \cup {docID}
                  /\ ingested' = Put(ingested, docID, tokens)
                  /\ last' = [op |-> "AddDocument", docID |-> docID,
                              indexed |-> TRUE, again |-> docID \in called]
                  /\ writer' = [pc |-> ""]
    /\ UNCHANGED <<DocURLMap, readers, observed, crawlVars, extractVars, stored, orderVars>>

\* a reader takes its lock, reads the fields of the index and gives the
\* lock back; idx.mu.RLock() waits while AddDocument holds idx.mu
read(reader) ==
    /\ lockOf(reader) = "idx.mu" => writer.pc = ""
    /\ observed' = [by |-> reader, idx |-> idx]
    /\ UNCHANGED <<indexVars, crawlVars, extractVars, writer, stored, orderVars>>

NextLock ==
    \/ \E docID \in Docs, tokens \in TokenLists : AddDocumentLock(docID, tokens)
    \/ AddDocumentStep
    \/ \E reader \in IndexReaders : read(reader)

SpecLock == Init /\ [][NextLock]_vars

(***************************************************************************)
(* SearchEngine.SuggestSimilar: the terms of the index that begin with the *)
(* partial query.  Strings are read byte by byte: Chars takes a string     *)
(* apart, Concat puts it together.                                         *)
(***************************************************************************)
Alphabet == {"a", "b", "c", "t", "C", " "}

ByteStrings == UNION {[1..n -> Alphabet] : n \in 0..MaxChars}

RECURSIVE Concat(_)
Concat(chars) ==
    IF chars = << >> THEN "" ELSE Head(chars) \o Concat(Tail(chars))

Chars(s) == CHOOSE chars \in ByteStrings : Concat(chars) = s

\* len(s): the number of bytes
len(s) == Len(Chars(s))

\* strings.ToLower
toLowerByte(ch) == IF ch = "C" THEN "c" ELSE ch
ToLower(s) == Concat([i \in 1..len(s) |-> toLowerByte(Chars(s)[i])])

\* strings.TrimSpace: without the white space at both ends
RECURSIVE trimLeft(_)
trimLeft(chars) ==
    IF chars # << >> /\ Head(chars) = " " THEN trimLeft(Tail(chars)) ELSE chars

RECURSIVE trimRight(_)
trimRight(chars) ==
    IF chars # << >> /\ chars[Len(chars)] = " "
    THEN trimRight(SubSeq(chars, 1, Len(chars) - 1))
    ELSE chars

TrimSpace(s) == Concat(trimRight(trimLeft(Chars(s))))

\* strings.HasPrefix
HasPrefix(s, prefix) ==
    /\ len(prefix) <= len(s)
    /\ SubSeq(Chars(s), 1, len(prefix)) = Chars(prefix)

\* for term := range se.index.index, from the i-th key of the order the
\* range takes: a match is appended, and the loop ends as soon as it has
\* maxSuggestions of them
RECURSIVE suggestLoop(_, _, _, _, _)
suggestLoop(order, i, partialQuery, maxSuggestions, suggestions) ==
    IF i > Len(order) THEN suggestions
    ELSE IF HasPrefix(order[i], partialQuery) /\ order[i] # partialQuery
         THEN LET appended == Append(suggestions, order[i])
              IN  IF Len(appended) >= maxSuggestions THEN appended
                  ELSE suggestLoop(order, i + 1, partialQuery, maxSuggestions,
                                   appended)
         ELSE suggestLoop(order, i + 1, partialQuery, maxSuggestions, suggestions)

\* sort.Slice(suggestions, freqI > freqJ): the slice in an order in which no
\* term comes before one of a higher docFreq; equal ones in any order
sortByDocFreq(suggestions, docFreq) ==
    {sorted \in Perms(Range(suggestions)) :
        \A i, j \in 1..Len(sorted) :
            i < j => Lookup(docFreq, sorted[i], 0) >= Lookup(docFreq, sorted[j], 0)}

\* the slices a call can return: a range over a Go map takes the keys in
\* any order
SuggestSimilar(ix, partialQuery, maxSuggestions) ==
    LET limit == IF maxSuggestions <= 0 THEN 5 ELSE maxSuggestions
        prefix == ToLower(TrimSpace(partialQuery))
    IN  IF len(prefix) < 2 THEN {<< >>}
        ELSE UNION {sortByDocFreq(suggestLoop(order, 1, prefix, limit, << >>),
                                  ix.docFreq) :
                        order \in Perms(DOMAIN ix.index)}

(***************************************************************************)
(* SpecSuggest: documents with the terms "ca", "cab", "cat" and "b" are    *)
(* ingested, and SuggestSimilar is called on what the index holds.         *)
(***************************************************************************)
SuggestTokenLists == {<<"cab">>, <<"cat">>, <<"cab", "cat">>, <<"ca", "b">>}
PartialQueries == {"c", "ca", " Ca", "cab", "b "}

SearchSuggestSimilar(partialQuery, maxSuggestions) ==
    /\ \E suggestions \in SuggestSimilar(idx, partialQuery, maxSuggestions) :
           last' = [op |-> "SuggestSimilar", partialQuery |-> partialQuery,
                    maxSuggestions |-> maxSuggestions,
                    suggestions |-> suggestions]
    /\ UNCHANGED <<cache, idx, DocURLMap, readers, called, ingested, crawlVars,
                   extractVars, lockVars, stored, orderVars>>

NextSuggest ==
    \/ \E docID \in Docs, tokens \in SuggestTokenLists :
           IndexAddDocument(docID, tokens)
    \/ \E partialQuery \in PartialQueries, maxSuggestions \in 0..MaxK :
           SearchSuggestSimilar(partialQuery, maxSuggestions)

SpecSuggest == Init /\ [][NextSuggest]_vars

(***************************************************************************)
(* SpecOptimize: OptimizeCache on a cache whose counters are read exactly. *)
(* A document is ingested, keys are looked up (x is never stored, term:a   *)
(* is stored by PrewarmCache), and OptimizeCache runs at any moment, until *)
(* L1 has had MaxRequests requests.                                        *)
(***************************************************************************)
OptimizeKeys == {"x", "term:a"}

l1Requests(c) == c.stats["l1_hits"] + c.stats["l1_misses"]

InitOptimize ==
    /\ cache = [calculateL2Size(NewMultiLayerCache(IndexConfig, EmptyMap))
                   EXCEPT !.statCap = MaxRequests + 1]
    /\ idx = NewInvertedIndex
    /\ DocURLMap = EmptyMap
    /\ readers = NoReaders
    /\ called = {}
    /\ ingested = EmptyMap
    /\ last = NoOp
    /\ NoCrawl
    /\ NoExtract
    /\ Unlocked
    /\ NoneStored
    /\ NoCalls

OptimizeAddDocument ==
    /\ l1Requests(cache) < MaxRequests
    /\ IndexAddDocument("d1", <<"a">>)

OptimizeGet(key) ==
    /\ l1Requests(cache) < MaxRequests
    /\ CacheGet(key)

NextOptimize ==
    \/ OptimizeAddDocument
    \/ \E key \in OptimizeKeys : OptimizeGet(key)
    \/ IndexPrewarmCache
    \/ IndexOptimizeCache

SpecOptimize == InitOptimize /\ [][NextOptimize]_vars

(***************************************************************************)
(* SpecQueryTTL: the query results of the cache with the clock.             *)
(* stored keeps the instant of the last SetQueryResult of each query, as   *)
(* far back as one tick beyond L3TTL.                                      *)
(***************************************************************************)
TTLSetQueryResult(query, n) ==
    /\ cache' = SetQueryResult(cache, query, Raw(n), now)
    /\ Bounded(cache')
    /\ last' = [op |-> "SetQueryResult", key |-> query, size |-> n]
    /\ stored' = Put(stored, query, now)
    /\ UNCHANGED <<idx, DocURLMap, readers, called, ingested, crawlVars, extractVars,
                   lockVars, orderVars>>

\* one tick of the clock passes
TTLTick ==
    /\ cache' = elapse(cache)
    /\ last' = NoOp
    /\ stored' = [query \in DOMAIN stored |->
                     Max(stored[query] - 1, now - cache.l3TTL - 1)]
    /\ UNCHANGED <<idx, DocURLMap, readers, called, ingested, crawlVars, extractVars,
                   lockVars, orderVars>>

NextQueryTTL ==
    \/ \E query \in CacheQueries, n \in 1..MaxItemSize :
           TTLSetQueryResult(query, n)
    \/ \E query \in CacheQueries : CacheGetQueryResult(query)
    \/ \E key \in CacheKeys, n \in 1..MaxItemSize : CacheSet(key, n)
    \/ \E key \in CacheKeys : CacheGet(key)
    \/ CacheCleanup
    \/ WriteBack
    \/ TTLTick

SpecQueryTTL == InitCache /\ [][NextQueryTTL]_vars

(***************************************************************************)
(* SpecLockOrder: the lock operations of the calls of the index and of the *)
(* cache, made by two goroutines at once.  A call is the sequence of the   *)
(* Lock, Unlock, RLock and RUnlock calls it still has to make, with an     *)
(* "alt" where the data decide how it goes on (a hit or a miss, an         *)
(* eviction or none, a loop that runs once or not at all).  sync.RWMutex:  *)
(* Lock first announces the writer, which keeps later RLock calls waiting, *)
(* and then waits for the readers to leave.                                *)
(***************************************************************************)
Operations == {"AddDocument", "Search", "PrewarmCache", "OptimizeCache",
               "GetIndexStats", "Clear", "cleanup"}

inst(do, m) == <<[do |-> do, mu |-> m, of |-> {}]>>

alt(programs) == <<[do |-> "alt", mu |-> "", of |-> programs]>>

incrementStatLocking == inst("Lock", "c.statsMutex") \o inst("Unlock", "c.statsMutex")

getFromL1Locking == inst("RLock", "c.l1Mutex") \o inst("RUnlock", "c.l1Mutex")

\* setToL1, with evictFromL1 and its incrementStat("evictions") or without
setToL1Locking ==
    inst("Lock", "c.l1Mutex") \o alt({<< >>, incrementStatLocking})
        \o inst("Unlock", "c.l1Mutex")

getFromL2Locking == inst("RLock", "c.l2Mutex") \o inst("RUnlock", "c.l2Mutex")

\* setToL2 promotes under the lock of L1 too
setToL2Nested ==
    inst("Lock", "c.l2Mutex") \o inst("Lock", "c.l1Mutex")
        \o inst("Unlock", "c.l1Mutex") \o inst("Unlock", "c.l2Mutex")

\* setToL2, with checkL2Capacity removing a file or none
setToL2Locking ==
    inst("Lock", "c.l2Mutex") \o alt({<< >>, incrementStatLocking})
        \o inst("Unlock", "c.l2Mutex")

getFromL3Locking == inst("RLock", "c.l3Mutex") \o inst("RUnlock", "c.l3Mutex")

setToL3Locking == inst("Lock", "c.l3Mutex") \o inst("Unlock", "c.l3Mutex")

\* Get, followed by found when it returns an item and by missed when not
GetLocking(found, missed) ==
    getFromL1Locking \o incrementStatLocking \o
    alt({found,
         getFromL2Locking \o incrementStatLocking \o
         alt({setToL1Locking \o found,
              getFromL3Locking \o incrementStatLocking \o
              alt({setToL1Locking \o setToL2Locking \o found,
                   missed})})})

SetLocking == setToL1Locking \o setToL2Locking

SetQueryResultLocking == setToL3Locking \o setToL1Locking

GetStatsLocking == inst("RLock", "c.statsMutex") \o inst("RUnlock", "c.statsMutex")

GetCacheInfoLocking ==
    getFromL1Locking \o getFromL3Locking \o GetStatsLocking

ClearLocking ==
    inst("Lock", "c.l1Mutex") \o inst("Unlock", "c.l1Mutex")
        \o inst("Lock", "c.l2Mutex") \o inst("Unlock", "c.l2Mutex")
        \o inst("Lock", "c.l3Mutex") \o inst("Unlock", "c.l3Mutex")

cleanupLocking == ClearLocking

readDocURLMap == inst("RLock", "docURLMu") \o inst("RUnlock", "docURLMu")

\* getDocumentMetadata, with the metadata in docMetaCache or built from
\* DocURLMap
getDocumentMetadataLocking ==
    inst("RLock", "idx.docMetaMutex") \o alt({<< >>, readDocURLMap})
        \o inst("RUnlock", "idx.docMetaMutex")

updateDocumentAccessLocking ==
    inst("Lock", "idx.docMetaMutex") \o inst("Unlock", "idx.docMetaMutex")

\* AddDocument: the document is cached, or known to docLen, or indexed
AddDocumentLocking ==
    inst("Lock", "idx.mu") \o
    GetLocking(inst("Unlock", "idx.mu"),
               alt({inst("Unlock", "idx.mu"),
                    readDocURLMap \o updateDocumentAccessLocking
                        \o SetLocking \o inst("Unlock", "idx.mu")}))

\* performSearch with no term or one, and no scored document or one
performSearchLocking ==
    LET scored == alt({<< >>,
                       getDocumentMetadataLocking \o readDocURLMap
                           \o updateDocumentAccessLocking})
                      \o inst("RUnlock", "idx.mu")
    IN  inst("RLock", "idx.mu") \o
        alt({scored,
             GetLocking(scored, alt({scored, SetLocking \o scored}))})

\* Search: the cached results with no document or one, or performSearch
\* and SetQueryResult
SearchLocking ==
    LET search == performSearchLocking \o SetQueryResultLocking
    IN  GetLocking(alt({<< >>, updateDocumentAccessLocking, search}), search)

\* PrewarmCache with no term or one
PrewarmCacheLocking ==
    inst("RLock", "idx.mu") \o alt({<< >>, SetLocking})
        \o inst("RUnlock", "idx.mu")

OptimizeCacheLocking ==
    GetStatsLocking \o alt({<< >>, ClearLocking \o PrewarmCacheLocking})

GetIndexStatsLocking ==
    inst("RLock", "idx.mu") \o GetCacheInfoLocking \o inst("RUnlock", "idx.mu")

Locking(op) ==
    CASE op = "AddDocument" -> AddDocumentLocking
      [] op = "Search" -> SearchLocking
      [] op = "PrewarmCache" -> PrewarmCacheLocking
      [] op = "OptimizeCache" -> OptimizeCacheLocking
      [] op = "GetIndexStats" -> GetIndexStatsLocking
      [] op = "Clear" -> ClearLocking
      [] op = "cleanup" -> cleanupLocking

\* the goroutine is in a call
calling(t) == calls[t].op # ""

\* the goroutine is in a call and its next lock operation is do
next(t, do) ==
    /\ calls[t].todo # << >>
    /\ Head(calls[t].todo).do = do

\* the goroutine has announced itself as the writer of m and waits
waiting(t, m) == next(t, "wait") /\ Head(calls[t].todo).mu = m

done(t) == [calls EXCEPT ![t].todo = Tail(@)]

Call(t, op) ==
    /\ ~calling(t)
    /\ calls' = [calls EXCEPT ![t] = [op |-> op, todo |-> Locking(op)]]
    /\ UNCHANGED <<indexVars, crawlVars, extractVars, lockVars, stored, mutexes>>

\* the data decide how the call goes on
Branch(t) ==
    /\ next(t, "alt")
    /\ \E program \in Head(calls[t].todo).of :
           calls' = [calls EXCEPT ![t].todo = program \o Tail(@)]
    /\ UNCHANGED <<indexVars, crawlVars, extractVars, lockVars, stored, mutexes>>

\* m.Lock(): one writer at a time goes on to wait for the readers
Lock(t) ==
    /\ next(t, "Lock")
    /\ LET m == Head(calls[t].todo).mu
       IN  /\ mutexes[m].w = ""
           /\ \A c \in Callers : ~waiting(c, m)
           /\ calls' = [calls EXCEPT
                            ![t].todo = inst("wait", m) \o Tail(@)]
    /\ UNCHANGED <<indexVars, crawlVars, extractVars, lockVars, stored, mutexes>>

\* m.Lock() returns when no reader holds m
Locked(t) ==
    /\ next(t, "wait")
    /\ LET m == Head(calls[t].todo).mu
       IN  /\ \A c \in Callers : mutexes[m].r[c] = 0
           /\ mutexes' = [mutexes EXCEPT ![m].w = t]
    /\ calls' = done(t)
    /\ UNCHANGED <<indexVars, crawlVars, extractVars, lockVars, stored>>

Unlock(t) ==
    /\ next(t, "Unlock")
    /\ mutexes' = [mutexes EXCEPT ![Head(calls[t].todo).mu].w = ""]
    /\ calls' = done(t)
    /\ UNCHANGED <<indexVars, crawlVars, extractVars, lockVars, stored>>

\* m.RLock() returns when no writer holds m or waits for it
RLock(t) ==
    /\ next(t, "RLock")
    /\ LET m == Head(calls[t].todo).mu
       IN  /\ mutexes[m].w = ""
           /\ \A c \in Callers : ~waiting(c, m)
           /\ mutexes' = [mutexes EXCEPT ![m].r[t] = @ + 1]
    /\ calls' = done(t)
    /\ UNCHANGED <<indexVars, crawlVars, extractVars, lockVars, stored>>

RUnlock(t) ==
    /\ next(t, "RUnlock")
    /\ mutexes' = [mutexes EXCEPT ![Head(calls[t].todo).mu].r[t] = @ - 1]
    /\ calls' = done(t)
    /\ UNCHANGED <<indexVars, crawlVars, extractVars, lockVars, stored>>

Return(t) ==
    /\ calling(t)
    /\ calls[t].todo = << >>
    /\ calls' = [calls EXCEPT ![t].op = ""]
    /\ UNCHANGED <<indexVars, crawlVars, extractVars, lockVars, stored, mutexes>>

\* a step of a call that has begun
Run(t) ==
    \/ Branch(t)
    \/ Lock(t)
    \/ Locked(t)
    \/ Unlock(t)
    \/ RLock(t)
    \/ RUnlock(t)
    \/ Return(t)

NextLockOrder ==
    \/ \E t \in Callers, op \in Operations : Call(t, op)
    \/ \E t \in Callers : Branch(t)
    \/ \E t \in Callers : Lock(t)
    \/ \E t \in Callers : Locked(t)
    \/ \E t \in Callers : Unlock(t)
    \/ \E t \in Callers : RLock(t)
    \/ \E t \in Callers : RUnlock(t)
    \/ \E t \in Callers : Return(t)

SpecLockOrder == Init /\ [][NextLockOrder]_vars

\* sync.Mutex and sync.RWMutex starve no goroutine: one that can go on
\* again and again does go on
SpecLockOrderFair == SpecLockOrder /\ \A t \in Callers : SF_vars(Run(t))

(***************************************************************************)
(* Ingest: AddDocument with every token list of up to MaxLen tokens,       *)
(* InvalidateDocument, ClearCache, the cleanup sweep and the write-back,   *)
(* all within one tick of the clock.  l2Dir is empty, or holds the file    *)
(* an earlier run of the process wrote for a document it indexed: the      *)
(* index is in memory and starts empty with every run, the files of l2Dir  *)
(* stay.                                                                   *)
(***************************************************************************)
IngestLists == UNION {[1..n -> Terms] : n \in 0..MaxLen}

IndexDirs ==
    {EmptyMap, [k \in {generateKey("doc:d1")} |-> oldDocFile(<<"a">>, 1)]}

InitIngest ==
    /\ \E files \in IndexDirs :
           cache = calculateL2Size(NewMultiLayerCache(IndexConfig, files))
    /\ idx = NewInvertedIndex
    /\ DocURLMap = EmptyMap
    /\ readers = NoReaders
    /\ called = {}
    /\ ingested = EmptyMap
    /\ last = NoOp
    /\ NoCrawl
    /\ NoExtract
    /\ Unlocked
    /\ NoneStored
    /\ NoCalls

NextIngest ==
    \/ \E docID \in Docs, tokens \in IngestLists : IndexAddDocument(docID, tokens)
    \/ \E docID \in Docs : IndexInvalidateDocument(docID)
    \/ IndexClearCache
    \/ CacheCleanup
    \/ WriteBack

SpecIngest == InitIngest /\ [][NextIngest]_vars

(***************************************************************************)
(* C1.  AddDocument is idempotent per docID: a call for a docID for which  *)
(* an earlier AddDocument call has returned leaves docCount, sumDocLen,    *)
(* avgDL, docLen, docFreq and every posting list as they were.             *)
(***************************************************************************)
IndexContent(ix) ==
    <<ix.docCount, ix.sumDocLen, ix.avgDL, ix.docLen, ix.docFreq, ix.index>>

C1_Idempotent ==
    [][(last'.op = "AddDocument" /\ last'.docID \in called)
          => IndexContent(idx') = IndexContent(idx)]_vars

(***************************************************************************)
(* C2.  For every term t, docFreq[t] is the number of distinct docIDs      *)
(* that are keys of postings[t].                                           *)
(***************************************************************************)
C2_DocFreq ==
    /\ DOMAIN idx.docFreq = DOMAIN idx.index
    /\ \A t \in DOMAIN idx.index :
           idx.docFreq[t] = Cardinality(DOMAIN idx.index[t])

\* a term in two documents, in one of them twice
C2_Witness ==
    \E t \in DOMAIN idx.index :
        /\ idx.docFreq[t] = 2
        /\ \E d \in DOMAIN idx.index[t] : Len(idx.index[t][d]) = 2

(***************************************************************************)
(* C3.  For every docID d in docLen, docLen[d] is the sum over all terms t *)
(* of the length of postings[t][d].                                        *)
(***************************************************************************)
RECURSIVE totalPositions(_, _, _)
totalPositions(ix, terms, d) ==
    IF terms = {} THEN 0
    ELSE LET t == CHOOSE x \in terms : TRUE
         IN  Len(Lookup(ix.index[t], d, << >>))
                 + totalPositions(ix, terms \ {t}, d)

C3_DocLen ==
    \A d \in DOMAIN idx.docLen :
        idx.docLen[d] = totalPositions(idx, DOMAIN idx.index, d)

\* a document of MaxLen tokens over two terms, next to an empty document
C3_Witness ==
    \E d, e \in DOMAIN idx.docLen :
        /\ idx.docLen[d] = MaxLen
        /\ \A t \in Terms : t \in DOMAIN idx.index /\ d \in DOMAIN idx.index[t]
        /\ idx.docLen[e] = 0

(***************************************************************************)
(* C4.  docCount is the number of keys of docLen, sumDocLen is the sum of  *)
(* docLen[d] over all d, and avgDL is sumDocLen / docCount when            *)
(* docCount > 0 and 0 otherwise.                                           *)
(***************************************************************************)
RECURSIVE sumDocLens(_, _)
sumDocLens(ix, docs) ==
    IF docs = {} THEN 0
    ELSE LET d == CHOOSE x \in docs : TRUE
         IN  ix.docLen[d] + sumDocLens(ix, docs \ {d})

C4_Aggregates ==
    /\ idx.docCount = Cardinality(DOMAIN idx.docLen)
    /\ idx.sumDocLen = sumDocLens(idx, DOMAIN idx.docLen)
    /\ idx.avgDL.den > 0
    /\ IF idx.docCount > 0
       THEN idx.avgDL.num * idx.docCount = idx.sumDocLen * idx.avgDL.den
       ELSE idx.avgDL.num = 0

\* two documents, three tokens: avgDL is 3/2
C4_Witness ==
    /\ idx.docCount = 2
    /\ idx.sumDocLen = 3
    /\ idx.avgDL.num * 2 = 3 * idx.avgDL.den

(***************************************************************************)
(* C5.  postings[t][d] is strictly increasing and is the list of the       *)
(* indices i (from 0) at which the token list AddDocument indexed d with   *)
(* has tokens[i] = t; a term is a key of postings only if a document       *)
(* contains it.                                                            *)
(***************************************************************************)
Indices(tokens, t) == {i - 1 : i \in {j \in 1..Len(tokens) : tokens[j] = t}}

StrictlyIncreasing(list) ==
    \A i, j \in 1..Len(list) : i < j => list[i] < list[j]

C5_Positions ==
    /\ \A t \in DOMAIN idx.index :
           /\ DOMAIN idx.index[t] # {}
           /\ \A d \in DOMAIN idx.index[t] :
                  /\ d \in DOMAIN ingested
                  /\ Indices(ingested[d], t) # {}
    /\ \A d \in DOMAIN ingested, t \in Terms :
           LET list == Lookup(Lookup(idx.index, t, EmptyMap), d, << >>)
           IN  /\ StrictlyIncreasing(list)
               /\ Range(list) = Indices(ingested[d], t)

\* a term at both places of one document and at the second place only of
\* the other
C5_Witness ==
    \E d, e \in DOMAIN ingested, t \in DOMAIN idx.index :
        /\ d \in DOMAIN idx.index[t] /\ e \in DOMAIN idx.index[t]
        /\ idx.index[t][d] = <<0, 1>>
        /\ idx.index[t][e] = <<1>>

(***************************************************************************)
(* C6.  Once AddDocument(d, T) has returned for a new docID d, Search(t,   *)
(* 1) for a token t in T returns a non-empty result.                       *)
(***************************************************************************)
C6_SearchFindsIngested ==
    (/\ last.op = "Search"
     /\ last.topK = 1
     /\ \E d \in DOMAIN ingested : last.query \in Range(ingested[d]))
        => last.results # << >>

(***************************************************************************)
(* C7.  Search(q, k) never returns more than k results.                    *)
(***************************************************************************)
C7_AtMostK ==
    last.op = "Search" => Len(last.results) <= last.topK

(***************************************************************************)
(* C8.  A Get or GetQueryResult that reports a hit took the payload from   *)
(* a CacheItem that had not expired when the call was made:                *)
(* now <= ExpiresAt for the item of the tier that served it.               *)
(***************************************************************************)
IsLookup(l) == l.op \in {"Get", "GetQueryResult"}

C8_NoExpiredHit ==
    (IsLookup(last) /\ last.found) =>
        /\ last.tier \in {"L1", "L2", "L3"}
        /\ last.at <= last.expires

\* a hit served at the very instant the item expires
C8_Witness ==
    /\ IsLookup(last) /\ last.found
    /\ last.tier = "L2"
    /\ last.expires = last.at

(***************************************************************************)
(* C9.  The L1 map never holds more than L1MaxItems entries.  (setToL1 is  *)
(* one step of the model, so every state is one in which no insert is      *)
(* under way.)                                                             *)
(***************************************************************************)
C9_L1Bound ==
    Cardinality(DOMAIN cache.l1Cache) <= cache.l1MaxSize

(***************************************************************************)
(* C10.  l2CurrentSize <= l2MaxSize + (size of the most recent L2 insert)  *)
(***************************************************************************)
C10_L2Bound ==
    cache.l2CurrentSize <= cache.l2MaxSize + cache.lastInsert

(***************************************************************************)
(* C11.  When Clear returns, the L1 map and order list, the *.cache files  *)
(* of l2Dir, the running size and L3 are empty, and every stats counter    *)
(* has the value it had before the call.                                   *)
(***************************************************************************)
C11_ClearEmpties ==
    [][last'.op = "Clear" =>
          /\ cache'.l1Cache = EmptyMap
          /\ cache'.l1Order = << >>
          /\ cache'.l2Files = EmptyMap
          /\ cache'.l2CurrentSize = 0
          /\ cache'.l3Cache = EmptyMap
          /\ cache'.stats = cache.stats]_vars

(***************************************************************************)
(* C12.  A Get that hits in L2 writes the entry into L1, a Get that hits   *)
(* in L3 writes it into L1 and L2, and the next Get of the key, made at    *)
(* once, hits at L1; a Get that misses all three tiers returns not-found   *)
(* and changes no tier's contents.                                         *)
(***************************************************************************)
LookupKey(l) ==
    generateKey(IF l.op = "Get" THEN l.key ELSE "query:" \o l.key)

TierContents(c) == <<c.l1Cache, c.l1Order, c.l2Files, c.l3Cache>>

Promoted(l, c) ==
    /\ l.tier \in {"L2", "L3"} =>
           /\ LookupKey(l) \in DOMAIN c.l1Cache
           /\ c.l1Cache[LookupKey(l)].Data = l.data
           /\ getFromL1(c, LookupKey(l), now).found
    /\ l.tier = "L3" =>
           /\ LookupKey(l) \in DOMAIN c.l2Files
           /\ c.l2Files[LookupKey(l)].Data = jsonRoundTrip(l.data, EmptyMap)

C12_Original ==
    [][IsLookup(last') =>
          /\ last'.found => Promoted(last', cache')
          /\ ~last'.found => TierContents(cache') = TierContents(cache)]_vars

\* as C12_Original, but a Get that misses may delete the key's L2 file, when
\* it finds the file expired
C12_Promotion ==
    [][IsLookup(last') =>
          /\ last'.found => Promoted(last', cache')
          /\ ~last'.found =>
                \/ TierContents(cache') = TierContents(cache)
                \/ /\ LookupKey(last') \in DOMAIN cache.l2Files
                   /\ IsExpired(cache.l2Files[LookupKey(last')], now)
                   /\ TierContents(cache') =
                          TierContents([cache EXCEPT
                              !.l2Files = Del(@, LookupKey(last'))])]_vars

\* a hit in L3 that has put the entry into L1 and L2
C12_Witness ==
    /\ IsLookup(last) /\ last.found /\ last.tier = "L3"
    /\ LookupKey(last) \in DOMAIN cache.l1Cache
    /\ LookupKey(last) \in DOMAIN cache.l2Files

(***************************************************************************)
(* C13.  With L1MaxItems = 2, after Set(x), Set(y), Set(z) on an empty     *)
(* cache, Get(x) misses at L1 and is served from L2, then Get(z) hits at   *)
(* L1, then Get(y) hits at L1, and Evictions >= 1.                         *)
(***************************************************************************)
EmptyLRU ==
    [calculateL2Size(NewMultiLayerCache(LRUConfig, EmptyMap))
        EXCEPT !.statCap = StatCap]

AfterSets ==
    Set(Set(Set(EmptyLRU, "x", Raw(1), EmptyMap, now),
            "y", Raw(1), EmptyMap, now),
        "z", Raw(1), EmptyMap, now)

AfterGetX == Get(AfterSets, "x", EmptyMap, now).c

AfterGetZ == Get(AfterGetX, "z", EmptyMap, now).c

AfterGetY == Get(AfterGetZ, "y", EmptyMap, now).c

\* what decides the tier a Get is served from: the keys of each tier
Shape(c) == <<c.l1Order, DOMAIN c.l2Files, DOMAIN c.l3Cache>>

C13_Original ==
    [][last'.op = "Get" =>
          /\ Shape(cache) = Shape(AfterSets) /\ last'.key = "x"
                => last'.tier = "L2"
          /\ Shape(cache) = Shape(AfterGetX) /\ last'.key = "z"
                => last'.tier = "L1"
          /\ Shape(cache) = Shape(AfterGetZ) /\ last'.key = "y"
                => last'.tier = "L1" /\ cache'.stats.evictions >= 1]_vars

\* as C13_Original, but Get(y) misses at L1 and is served from L2: the
\* promotion of x by Get(x) has evicted y, the tail of l1Order
C13_Scenario ==
    [][last'.op = "Get" =>
          /\ Shape(cache) = Shape(AfterSets) /\ last'.key = "x"
                => last'.tier = "L2"
          /\ Shape(cache) = Shape(AfterGetX) /\ last'.key = "z"
                => last'.tier = "L1"
          /\ Shape(cache) = Shape(AfterGetZ) /\ last'.key = "y"
                => last'.tier = "L2" /\ cache'.stats.evictions >= 1]_vars

\* the third Get of the scenario has been served
C13_Witness ==
    /\ last.op = "Get" /\ last.key = "y" /\ last.tier = "L2"
    /\ Shape(cache) = Shape(AfterGetY)
    /\ cache.l1Order = <<generateKey("y"), generateKey("z")>>
    /\ cache.stats.evictions >= 1

(***************************************************************************)
(* C14.  When Search is called twice in a row with the same query, the     *)
(* second call returns the results of the first and is served from L3:     *)
(* the second call increments L3Hits.                                      *)
(***************************************************************************)
SecondSearch ==
    /\ last.op = "Search" /\ last'.op = "Search"
    /\ last'.query = last.query

\* the counter after one incrementStat
Incremented(c, stat) == incrementStat(c, stat).stats[stat]

C14_Original ==
    [][SecondSearch =>
          /\ last'.results = last.results
          /\ last'.fromCache
          /\ cache'.stats.l3_hits = Incremented(cache, "l3_hits")]_vars

\* as C14_Original, but the second call is served from L1, where
\* SetQueryResult has put the results next to L3: L1Hits is incremented and
\* L3Hits is not
C14_RoundTrip ==
    [][SecondSearch =>
          /\ last'.results = last.results
          /\ last'.fromCache
          /\ cache'.stats.l1_hits = Incremented(cache, "l1_hits")
          /\ cache'.stats.l3_hits = cache.stats.l3_hits]_vars

\* a first Search has computed its results and the second, the first hit of
\* the cache, has returned them
C14_Witness ==
    /\ last.op = "Search" /\ last.fromCache
    /\ cache.stats.l1_hits = 1 /\ cache.stats.l3_hits = 0
    /\ generateKey("query:" \o last.query) \in DOMAIN cache.l3Cache

(***************************************************************************)
(* C15.  When the index holds exactly one document A and t is a term of    *)
(* A, a Search(t, k) with k >= 1 that computes its results returns exactly *)
(* one result, with DocID = A and a strictly positive score.               *)
(***************************************************************************)
\* the search just made was computed for a term of the only document
OneDocSearch(docID) ==
    /\ last.op = "Search" /\ ~last.fromCache /\ last.topK >= 1
    /\ idx.docCount = 1 /\ DOMAIN idx.docLen = {docID}
    /\ Tokenize(last.query) # << >>
    /\ \A term \in Range(Tokenize(last.query)) :
           /\ term \in DOMAIN idx.index
           /\ docID \in DOMAIN idx.index[term]

TermFreq(term, docID) ==
    Len(Lookup(Lookup(idx.index, term, EmptyMap), docID, << >>))

\* the search just made was computed over exactly A and B
RankSearch(A, B) ==
    /\ last.op = "Search" /\ ~last.fromCache /\ last.topK = 10
    /\ last.query = "a"
    /\ idx.docCount = 2 /\ DOMAIN idx.docLen = {A, B}
    /\ idx.docLen[A] = 100 /\ TermFreq("a", A) = 10
    /\ idx.docLen[B] = 10 /\ TermFreq("a", B) = 1

goroutines == DOMAIN threads \ {Main}

InFlight == {g \in goroutines : threads[g].pc = "Crawl"}

C17_FetchesInFlight ==
    /\ Cardinality(InFlight) <= SemSize
    /\ sem <= SemSize

\* the semaphore is full, every holder is inside Crawl, and one more
\* goroutine waits to send
C17_Witness ==
    /\ Cardinality(InFlight) = SemSize
    /\ sem = SemSize
    /\ \E g \in goroutines : threads[g].pc = "sem"

(***************************************************************************)
(* C18.  Within one CrawlRecursive invocation no URL is fetched more than  *)
(* once, under every interleaving of worker calls that reach the same URL: *)
(* a goroutine's url is in visitedURLs before the goroutine is started,    *)
(* and no two goroutines have the same url.                                *)
(***************************************************************************)
C18_FetchedOnce ==
    /\ \A url \in DOMAIN fetches : fetches[url] <= 1
    /\ \A g \in goroutines : threads[g].url \in visitedURLs
    /\ \A g, h \in goroutines : threads[g].url = threads[h].url => g = h

\* two worker calls have reached the same url at once: one has found it
\* unseen and holds the mutex, the other waits in mu.Lock()
C18_Witness ==
    \E t, o \in DOMAIN threads :
        /\ t # o
        /\ threads[t].u = threads[o].u
        /\ threads[t].pc = "insert" /\ mu = t
        /\ threads[o].pc = "Lock"

(***************************************************************************)
(* C19.  On the closed link graph, when every fetch succeeds and maxDepth  *)
(* exceeds every path length, CrawlRecursive returns in the end, and by    *)
(* then has fetched every URL reachable from the seed exactly once and no  *)
(* other URL, under every interleaving.                                    *)
(***************************************************************************)
RECURSIVE reach(_, _)
reach(S, n) ==
    IF n = 0 THEN S
    ELSE reach(S \cup UNION {Links[url] : url \in S}, n - 1)

Reachable == reach({seedURL}, Cardinality(URLs))

DeepEnough == maxDepth >= Cardinality(Reachable) /\ broken = {}

FetchedAll ==
    /\ at(Main, "returned")
    /\ fetches = [url \in Reachable |-> 1]

Running == {g \in goroutines : threads[g].pc # "exit"}

C20_ReturnsLast ==
    /\ wg = Cardinality(Running)
    /\ at(Main, "returned") =>
           /\ Running = {}
           /\ sem = 0 /\ mu = ""
           /\ ~ENABLED NextCrawl

\* CrawlRecursive has returned from a crawl whose goroutines started others
C20_Witness ==
    /\ at(Main, "returned")
    /\ Cardinality(goroutines) >= 3
    /\ \E g \in goroutines : threads[g].curr_depth >= 1
(***************************************************************************)
(* C21  Crawl bound on a cycle.  On the pages A -> B -> A with maxDepth 3  *)
(* and the extractor consuming the index channel, CrawlRecursive(A)        *)
(* returns, the visited-set never holds anything but A and B and ends as   *)
(* {A, B}, and the index never holds more than 2 documents.                *)
(***************************************************************************)
\* the call CrawlRecursive(A) with SEARCH_DEPTH = 3 is about to start
CycleCrawl ==
    /\ maxDepth = 3
    /\ at(Main, "worker")
    /\ threads[Main].u = "A"
    /\ visitedURLs = {}

CycleDone ==
    /\ at(Main, "returned")
    /\ visitedURLs = {"A", "B"}
    /\ idx.docCount <= 2

C21_CrawlBound ==
    CycleCrawl =>
        /\ [](visitedURLs \subseteq {"A", "B"} /\ idx.docCount <= 2)
        /\ <>[]CycleDone

\* the crawl of the cycle has returned: A was fetched at depth 0, B at depth
\* 1, the call worker(A, 2) made from B's page found A visited, and both
\* pages are in the index
C21_Witness ==
    /\ maxDepth = 3
    /\ broken = {}
    /\ CycleDone
    /\ DOMAIN threads = {Main, "main>A", "A>B"}
    /\ threads["A>B"].pc = "exit"
    /\ fetches = Put(Put(EmptyMap, "A", 1), "B", 1)
    /\ idx.docCount = 2

(***************************************************************************)
(* C22  Depth bound.  A call worker(url, depth) with depth >= maxDepth     *)
(* returns before the visited-set and before the fetch, so every url in    *)
(* the visited-set was passed to worker at a depth in 0..maxDepth-1, every *)
(* fetch was made by a goroutine started at such a depth, and with         *)
(* maxDepth <= 0 nothing is inserted or fetched.                           *)
(***************************************************************************)
\* url was passed to a call of worker that got past the depth test at a
\* depth below maxDepth: the call is between the insert and the go
\* statement, or its goroutine exists
ScheduledInDepth(url) ==
    \/ \E t \in DOMAIN threads :
           /\ threads[t].pc = "go"
           /\ threads[t].u = url
           /\ callDepth(t) \in 0..(maxDepth - 1)
    \/ \E g \in DOMAIN threads \ {Main} :
           /\ threads[g].url = url
           /\ threads[g].curr_depth \in 0..(maxDepth - 1)

C22_DepthBound ==
    /\ \A g \in DOMAIN threads \ {Main} :
           threads[g].curr_depth \in 0..(maxDepth - 1)
    /\ \A url \in visitedURLs : ScheduledInDepth(url)
    /\ \A url \in DOMAIN fetches :
           \E g \in DOMAIN threads \ {Main} :
               /\ threads[g].url = url
               /\ threads[g].pc \notin {"sem"}
               /\ threads[g].curr_depth \in 0..(maxDepth - 1)
    /\ maxDepth <= 0 => visitedURLs = {} /\ fetches = EmptyMap

\* maxDepth = 2: the crawl has returned, the seed was fetched at depth 0 and
\* its three links at depth 1, and the links of those (w and s, at depth 2)
\* started no goroutine
C22_Witness ==
    /\ maxDepth = 2
    /\ at(Main, "returned")
    /\ visitedURLs = {"s", "u", "v", "w"}
    /\ DOMAIN threads = {Main, "main>s", "s>u", "s>v", "s>w"}
    /\ threads["main>s"].curr_depth = 0
    /\ threads["s>u"].curr_depth = 1
    /\ "u" \in DOMAIN fetches

(***************************************************************************)
(* C23  A failed fetch is isolated.  A fetch that fails sends no path on   *)
(* the index channel, schedules no child url and is made once only; its    *)
(* goroutine gives back its semaphore entry and its wait-group count; and  *)
(* the crawl goes on to fetch every other url it has scheduled, once each, *)
(* and returns.                                                            *)
(***************************************************************************)
filePathOf(url) == Join(DataURL, docIDOf(url), ".html")

\* the goroutine of a url whose fetch fails has neither sent a path nor
\* got any link to pass to worker, and the url has not been fetched twice
FailureContained ==
    \A g \in DOMAIN threads \ {Main} :
        threads[g].url \in broken =>
            /\ threads[g].pc \in {"sem", "Crawl", "hashAndStore",
                                  "semReceive", "Done", "exit"}
            /\ threads[g].extracted_urls = {}
            /\ Lookup(fetches, threads[g].url, 0) <= 1
            /\ filePathOf(threads[g].url) \notin DOMAIN emitted
            /\ \A i \in 1..Len(IndexTargetChan.buf) :
                   IndexTargetChan.buf[i] # filePathOf(threads[g].url)

\* the crawl has returned with every goroutine ended, the semaphore empty
\* and the wait-group at 0, every scheduled url fetched once and every
\* fetch that did not fail sent on the channel
CrawlCompleted ==
    /\ at(Main, "returned")
    /\ \A g \in DOMAIN threads \ {Main} : threads[g].pc = "exit"
    /\ sem = 0
    /\ wg = 0
    /\ \A url \in visitedURLs : Lookup(fetches, url, 0) = 1
    /\ \A url \in visitedURLs \ broken : Lookup(emitted, filePathOf(url), 0) = 1

C23_FailureIsolated == []FailureContained /\ <>[]CrawlCompleted

\* CrawlRecursive(P) has returned: the fetch of B failed, P and A were
\* fetched and sent
C23_Witness ==
    /\ broken = {"B"}
    /\ CrawlCompleted
    /\ FailureContained
    /\ visitedURLs = {"P", "A", "B"}
    /\ "P>B" \in DOMAIN threads
    /\ DOMAIN emitted = {filePathOf("P"), filePathOf("A")}

(***************************************************************************)
(* C24  The extraction pool is bounded.  In every state the number of      *)
(* tasks of ExtractText that are in processFile, or between processFile    *)
(* and their receive from sem, is the number of entries in sem and at most *)
(* its capacity.                                                           *)
(***************************************************************************)
TasksInFlight == TasksAt({"processFile", "release"})

C24_PoolBounded ==
    /\ TasksInFlight = extractor.sem
    /\ extractor.sem <= ExtractSemSize

\* the pool is full: as many tasks are in processFile as sem has room for,
\* and ExtractText holds a further path and waits in its send on sem
C24_Witness ==
    /\ TasksAt({"processFile"}) = ExtractSemSize
    /\ extractor.pc = "sem"
    /\ extractor.filePath = filePathOf("B")

(***************************************************************************)
(* C25  Extractor shutdown contract.  Once extractorCancel() has been      *)
(* called ExtractText receives no further path and starts no further task, *)
(* and when ExtractText or ShutdownExtractor has returned every task that  *)
(* was started has ended.                                                  *)
(***************************************************************************)
Cancelled == extractorCtx = "Done"

TasksStarted == count(tasks, DOMAIN tasks)

NoNewWork == Cancelled => received' = received /\ TasksStarted' = TasksStarted

Drained ==
    (extractor.pc = "returned" \/ shutdown = "returned") =>
        \A k \in DOMAIN tasks : k.pc = "exit"

C25_ShutdownContract == [][NoNewWork]_vars /\ []Drained

(***************************************************************************)
(* C26  No path is dropped between fetch and extraction.  Every path sent  *)
(* on the index channel is sent once and is in exactly one place: in the   *)
(* buffer, in the hands of ExtractText, or with exactly one task; a fetch  *)
(* that finds the buffer full waits in its send with its semaphore entry;  *)
(* and every path sent is in the end handed to a task.  As stated, the     *)
(* last part fails when ShutdownExtractor is called with a path still in   *)
(* the buffer; it holds of the runs in which extractorCancel() is not      *)
(* called.                                                                 *)
(***************************************************************************)
InBuffer(p) == {i \in 1..Len(IndexTargetChan.buf) : IndexTargetChan.buf[i] = p}

Held(p) == IF extractor.pc = "sem" /\ extractor.filePath = p THEN 1 ELSE 0

\* the goroutines of the crawl between their send on sem and their receive
HoldsSlot ==
    {g \in goroutines : threads[g].pc \notin {"sem", "Done", "exit"}}

ExactlyOnce ==
    /\ \A p \in DOMAIN emitted :
           /\ emitted[p] = 1
           /\ Cardinality(InBuffer(p)) + Held(p) + TasksOf(p) = 1
           /\ Lookup(received, p, 0) = Held(p) + TasksOf(p)
    /\ \A g \in goroutines :
           threads[g].pc = "hashAndStore" => g \in HoldsSlot
    /\ sem = Cardinality(HoldsSlot)
    /\ Len(IndexTargetChan.buf) <= ChanSize

AllHanded == \A p \in DOMAIN emitted : TasksOf(p) = 1

C26_Original == []ExactlyOnce /\ <>[]AllHanded

C26_NoDrop == []ExactlyOnce /\ <>[](Cancelled \/ AllHanded)

\* the buffer is full with the path of A, and the fetch of B waits in the
\* send of hashAndStore with its semaphore entry, no shutdown under way
C26_Witness ==
    /\ ~Cancelled
    /\ Len(IndexTargetChan.buf) = ChanSize
    /\ filePathOf("A") \in DOMAIN emitted
    /\ at("A>B", "hashAndStore")
    /\ "A>B" \in HoldsSlot
    /\ ExactlyOnce

(***************************************************************************)
(* C27  The index channel is closed once, by ShutdownExtractor alone, and  *)
(* no fetch sends on it once it is closed: no close and no send ever finds *)
(* the channel closed.                                                     *)
(***************************************************************************)
C27_ClosedOnce ==
    /\ IndexTargetChan.closed => shutdown \in {"Wait", "returned"}
    /\ "close of closed channel" \notin panicked
    /\ "send on closed channel" \notin panicked
    /\ \A g \in goroutines : threads[g].pc # "panic"

(***************************************************************************)
(* C28  AddDocument ingests every document that is not in docLen.  A call  *)
(* AddDocument(d, tokens) made with d not in docLen, whatever the cache    *)
(* holds, leaves d in docLen with docCount one higher and every position   *)
(* of tokens in the posting list of its token for d.                       *)
(***************************************************************************)
PostingsRecorded(ix, docID, tokens) ==
    \A i \in 1..Len(tokens) :
        (i - 1) \in Range(Lookup(Lookup(ix.index, tokens[i], EmptyMap), docID, << >>))

C28_IngestsNewDocument ==
    [][(last'.op = "AddDocument" /\ last'.docID \notin DOMAIN idx.docLen)
          => /\ last'.indexed
             /\ last'.docID \in DOMAIN idx'.docLen
             /\ idx'.docCount = idx.docCount + 1
             /\ last'.docID \in DOMAIN ingested'
             /\ PostingsRecorded(idx', last'.docID, ingested'[last'.docID])]_vars

(***************************************************************************)
(* C29  Readers are shut out of an AddDocument under way.  Whatever reads  *)
(* the fields of the index (Index.Search, and findMatchedTerms,            *)
(* hasExactMatch, SuggestSimilar, GetDocumentStats and GetIndexStats of    *)
(* SearchEngine) finds docFreq, docLen and docCount in agreement with the  *)
(* postings, as they are when no AddDocument is under way.                 *)
(***************************************************************************)
Consistent(ix) ==
    /\ DOMAIN ix.docFreq = DOMAIN ix.index
    /\ \A t \in DOMAIN ix.index :
           ix.docFreq[t] = Cardinality(DOMAIN ix.index[t])
    /\ \A d \in DOMAIN ix.docLen :
           ix.docLen[d] = totalPositions(ix, DOMAIN ix.index, d)
    /\ ix.docCount = Cardinality(DOMAIN ix.docLen)

C29_ReadersExcluded ==
    observed.by # "" => Consistent(observed.idx)

(***************************************************************************)
(* C30: SuggestSimilar(prefix, maxN) with a prefix of two bytes or more    *)
(* returns the first maxN terms of the list of all the indexed terms that  *)
(* have the prefix as a proper prefix, sorted by docFreq descending: no    *)
(* matching term that is left out has a strictly higher docFreq than a     *)
(* returned one; with a prefix of fewer than two bytes it returns the      *)
(* empty list.  The prefix is taken as the call normalises it.             *)
(***************************************************************************)
Matching(ix, prefix) ==
    {term \in DOMAIN ix.index : HasPrefix(term, prefix) /\ term # prefix}

Min(a, b) == IF a < b THEN a ELSE b

FirstOfSorted(ix, prefix, maxN, suggestions) ==
    /\ Range(suggestions) \subseteq Matching(ix, prefix)
    /\ Len(suggestions) = Cardinality(Range(suggestions))
    /\ Len(suggestions) = Min(maxN, Cardinality(Matching(ix, prefix)))
    /\ \A i, j \in 1..Len(suggestions) :
           i < j => Lookup(ix.docFreq, suggestions[i], 0)
                        >= Lookup(ix.docFreq, suggestions[j], 0)
    /\ \A omitted \in Matching(ix, prefix) \ Range(suggestions) :
           \A i \in 1..Len(suggestions) :
               Lookup(ix.docFreq, omitted, 0)
                   <= Lookup(ix.docFreq, suggestions[i], 0)

C30_SuggestTopN ==
    last.op = "SuggestSimilar" =>
        LET prefix == ToLower(TrimSpace(last.partialQuery))
        IN  IF len(prefix) < 2 THEN last.suggestions = << >>
            ELSE FirstOfSorted(idx, prefix, last.maxSuggestions,
                               last.suggestions)

(***************************************************************************)
(* C31: OptimizeCache clears all the cache layers and prewarms again       *)
(* exactly when L1 has had at least 100 requests (L1Hits + L1Misses) and   *)
(* fewer than 30% of them were hits (10 * L1Hits < 3 * requests);          *)
(* otherwise it leaves every cache tier as it is.                          *)
(***************************************************************************)
LowHitRate(c) == 10 * c.stats["l1_hits"] < 3 * l1Requests(c)

C31_OptimizeThreshold ==
    [][IndexOptimizeCache =>
          IF l1Requests(cache) >= 100 /\ LowHitRate(cache)
          THEN cache' \in PrewarmCache(idx, Clear(cache), now)
          ELSE cache' = cache]_vars

(***************************************************************************)
(* C32: the link set a successful fetch returns holds only non-empty       *)
(* normalized URLs (absolute, http or https, with a host): an href that is *)
(* empty, not parseable or of another scheme adds nothing to the set, so   *)
(* the empty string is never passed to worker and never inserted into the  *)
(* visited set.                                                            *)
(***************************************************************************)
Normalized(url) ==
    /\ url # ""
    /\ ~urlParse(url).err
    /\ isValidHTTPURL(urlParse(url))

C32_NoEmptyLink ==
    /\ \A t \in DOMAIN threads :
           /\ \A url \in threads[t].extracted_urls : Normalized(url)
           /\ threads[t].pc \in {"worker", "Lock", "seen", "insert", "go"}
                  => threads[t].u # ""
    /\ "" \notin visitedURLs

(***************************************************************************)
(* C33: for every successful fetch of url, docURL[docID] = url is recorded *)
(* before the file path is emitted on the index channel, so that whenever  *)
(* AddDocument(docID, ...) runs for a crawled document docURL[docID] is    *)
(* set and the document's metadata carries that URL.                       *)
(***************************************************************************)
Emitted(url) == Lookup(emitted, Join(DataURL, docIDOf(url), ".html"), 0) > 0

C33_URLRecorded ==
    \A url \in URLs :
        /\ Emitted(url) => Lookup(DocURLMap, docIDOf(url), "") = url
        /\ docIDOf(url) \in DOMAIN idx.docMetaCache
               => idx.docMetaCache[docIDOf(url)].URL = url

(***************************************************************************)
(* C34: L1 is a true LRU.  The order list is most-recent-first, where an   *)
(* access is a Set or promotion of the key or a Get that hits it at L1:    *)
(* the accessed key goes to the front and the other keys keep their order. *)
(* Whenever an insert pushes L1 over capacity, the evicted key is the one  *)
(* whose most recent access is the oldest among the keys then in L1 (every *)
(* other key stands before it in the order list), and it is never the key  *)
(* just inserted.                                                          *)
(***************************************************************************)
Inserts(l) ==
    \/ l.op = "Set"
    \/ l.op = "Get" /\ l.found /\ "tier" \in DOMAIN l /\ l.tier \in {"L2", "L3"}

HitsL1(l) ==
    l.op = "Get" /\ l.found /\ ("tier" \in DOMAIN l => l.tier = "L1")

Before(order, j, k) ==
    /\ indexOf(order, j, 1) # 0
    /\ indexOf(order, k, 1) # 0
    /\ indexOf(order, j, 1) < indexOf(order, k, 1)

\* key is the most recent one, and the others are in the order they had
MovedToFront(key) ==
    /\ cache'.l1Order # << >>
    /\ cache'.l1Order[1] = key
    /\ \A j, k \in DOMAIN cache'.l1Cache \ {key} :
           Before(cache'.l1Order, j, k) <=> Before(cache.l1Order, j, k)

EvictsOldest(key) ==
    LET before == DOMAIN cache.l1Cache \cup {key}
        evicted == before \ DOMAIN cache'.l1Cache
    IN  /\ key \notin evicted
        /\ IF Cardinality(before) > cache.l1MaxSize
           THEN \E e \in evicted :
                    /\ evicted = {e}
                    /\ \A k \in before \ {e, key} : Before(cache.l1Order, k, e)
           ELSE evicted = {}

\* the key of L1 an operation was about (RdStore records the hashed key)
L1Key(l) == IF l.op = "Get" /\ "tier" \notin DOMAIN l THEN l.key
            ELSE generateKey(l.key)

C34_TrueLRU ==
    [][/\ Inserts(last') =>
              /\ MovedToFront(L1Key(last'))
              /\ EvictsOldest(L1Key(last'))
       /\ HitsL1(last') => MovedToFront(L1Key(last'))]_vars

(***************************************************************************)
(* C35: L1's order list is always a duplicate-free permutation of the keys *)
(* of the L1 map, also when several Gets hit L1 concurrently and when Gets *)
(* interleave with Set, cleanup and Clear.  It is read in the states in    *)
(* which no goroutine is inside getFromL1.                                 *)
(***************************************************************************)
C35_OrderPermutation ==
    readers = NoReaders =>
        /\ Len(cache.l1Order) = Cardinality(DOMAIN cache.l1Cache)
        /\ Range(cache.l1Order) = DOMAIN cache.l1Cache

(***************************************************************************)
(* C36: the L2 running total is an exact account of the disk tier: after   *)
(* every completed operation l2CurrentSize equals the sum of the sizes of  *)
(* the *.cache files in l2Dir, also after a Set that overwrites the file   *)
(* of a key and after a Get that deletes an expired file; it is never      *)
(* negative.                                                               *)
(***************************************************************************)
C36_ExactAccount ==
    /\ cache.l2CurrentSize = sumSizes(cache.l2Files, DOMAIN cache.l2Files)
    /\ cache.l2CurrentSize >= 0

(***************************************************************************)
(* C37: the access-time write-back that an L2 hit starts never re-creates  *)
(* a cache file that has been deleted since: once Clear, an L2 capacity    *)
(* eviction or an expiry deletion of a key has completed, l2Dir holds no   *)
(* file of the key unless a later Set or promotion wrote it.  So the step  *)
(* in which a write-back lands adds no file to l2Dir.                      *)
(***************************************************************************)
WriteBackLands ==
    /\ cache'.l2Pending # cache.l2Pending
    /\ cache'.l2Pending \subseteq cache.l2Pending

C37_NoResurrection ==
    [][WriteBackLands => DOMAIN cache'.l2Files \subseteq DOMAIN cache.l2Files]_vars

(***************************************************************************)
(* C38: a query result that SetQueryResult stored at the instant T is      *)
(* never returned by GetQueryResult after T + L3TTL unless SetQueryResult  *)
(* stored it again: the copy SetQueryResult puts into L1 and the copies a  *)
(* promotion puts into L1 and L2 do not outlive the L3 entry.              *)
(***************************************************************************)
C38_QueryTTL ==
    (last.op = "GetQueryResult" /\ last.found) =>
        /\ last.key \in DOMAIN stored
        /\ last.at <= stored[last.key] + cache.l3TTL


(***************************************************************************)
(* C39: with every fetch succeeding, when CrawlRecursive has returned the  *)
(* URLs it fetched are, under every interleaving, the URLs whose shortest  *)
(* link distance from the seed is less than maxDepth: a URL first reached  *)
(* through a longer path does not make the crawl skip a URL within         *)
(* distance maxDepth - 1.                                                  *)
(***************************************************************************)
\* the URLs at a link distance below depth from seed
Within(seed, depth) == IF depth = 0 THEN {} ELSE reach({seed}, depth - 1)

C39_FetchedWithinDepth ==
    (at(Main, "returned") /\ broken = {}) =>
        DOMAIN fetches = Within(depthSeed, maxDepth)
(***************************************************************************)
(* C40: the locks of the index and of the cache are acquired in one order  *)
(* (idx.mu, idx.docMetaMutex, docURLMu; idx.mu, a tier mutex,              *)
(* c.statsMutex), no tier mutex is held while the mutex of another tier is *)
(* acquired, and so no interleaving of concurrent AddDocument, Search,     *)
(* PrewarmCache, OptimizeCache, GetIndexStats, Clear and cleanup calls     *)
(* deadlocks: every call returns in the end.                               *)
(***************************************************************************)
\* the place of each lock in the order
rank(m) ==
    CASE m = "idx.mu" -> 1
      [] m = "idx.docMetaMutex" -> 2
      [] m = "docURLMu" -> 3
      [] m \in {"c.l1Mutex", "c.l2Mutex", "c.l3Mutex"} -> 4
      [] m = "c.statsMutex" -> 5

\* the locks a goroutine holds
holds(t) == {m \in Mutexes : mutexes[m].w = t \/ mutexes[m].r[t] > 0}

\* a goroutine that is about to acquire a lock holds only locks that come
\* before it
InOrder ==
    \A t \in Callers :
        (next(t, "Lock") \/ next(t, "wait") \/ next(t, "RLock")) =>
            \A m \in holds(t) : rank(m) < rank(Head(calls[t].todo).mu)

C40_NoDeadlock ==
    /\ []InOrder
    /\ \A t \in Callers : calling(t) ~> ~calling(t)

\* AddDocument has announced itself as the writer of idx.mu and waits for
\* a Search that reads the index and is inside the cache
C40_Witness ==
    /\ calls["g1"].op = "AddDocument" /\ waiting("g1", "idx.mu")
    /\ calls["g2"].op = "Search"
    /\ holds("g2") = {"idx.mu", "c.l2Mutex", "c.statsMutex"}

====
